---- MODULE Spec2Model ----
(***************************************************************************)
(* A model of the lambda-appsync schema compiler (lambda-appsync-proc) and *)
(* of the code it generates.  Identifiers are sequences of one-character   *)
(* strings so that casing, word splitting and keyword escaping are         *)
(* computed the way common.rs computes them.                               *)
(***************************************************************************)
EXTENDS Integers, Sequences, FiniteSets, TLC

\* Option<T>: None is the empty sequence, Some(x) the one-element sequence
None == <<>>

Some(x) == <<x>>

IsSome(o) == Len(o) = 1

Unwrap(o) == o[1]

(***************************************************************************)
(* Characters and strings                                                  *)
(***************************************************************************)
UpperAlphabet == <<"A", "B", "C", "D", "E", "F", "G", "H", "I", "J", "K", "L", "M", "N", "O", "P", "Q", "R", "S", "T", "U", "V", "W", "X", "Y", "Z">>

LowerAlphabet == <<"a", "b", "c", "d", "e", "f", "g", "h", "i", "j", "k", "l", "m", "n", "o", "p", "q", "r", "s", "t", "u", "v", "w", "x", "y", "z">>

Range(f) == { f[x] : x \in DOMAIN f }

\* char::is_uppercase
IsUppercase(c) == c \in Range(UpperAlphabet)

\* char::is_lowercase
IsLowercase(c) == c \in Range(LowerAlphabet)

AlphaIndex(alphabet, c) == CHOOSE i \in DOMAIN alphabet : alphabet[i] = c

\* str::to_lowercase, one character at a time
ToLowercase(s) ==
    [i \in DOMAIN s |-> IF IsUppercase(s[i]) THEN LowerAlphabet[AlphaIndex(UpperAlphabet, s[i])] ELSE s[i]]

\* str::to_uppercase, one character at a time
ToUppercase(s) ==
    [i \in DOMAIN s |-> IF IsLowercase(s[i]) THEN UpperAlphabet[AlphaIndex(LowerAlphabet, s[i])] ELSE s[i]]

\* orig[from..to), with 0-based byte offsets as in the source
Slice(s, from, to) == SubSeq(s, from + 1, to)

RECURSIVE SplitOn(_, _)
\* str::split(sep): the pieces between separators, empty pieces included
SplitOn(s, sep) ==
    IF \A i \in DOMAIN s : s[i] # sep
    THEN <<s>>
    ELSE LET i == CHOOSE j \in DOMAIN s : s[j] = sep /\ \A k \in 1..(j - 1) : s[k] # sep
         IN  <<SubSeq(s, 1, i - 1)>> \o SplitOn(SubSeq(s, i + 1, Len(s)), sep)

RECURSIVE Join(_, _)
\* [String]::join(sep)
Join(words, sep) ==
    IF words = <<>> THEN <<>>
    ELSE IF Len(words) = 1 THEN words[1]
    ELSE words[1] \o sep \o Join(Tail(words), sep)

(***************************************************************************)
(* common.rs: CaseType, Word, Name                                         *)
(***************************************************************************)
\* Faulty variant of CaseType::case: the character after the first decides
CaseType_case_SecondDecides(s) ==
    IF IsUppercase(s[1])
    THEN IF Len(s) >= 2 /\ ~(IsUppercase(s[2]) \/ s[2] = "_") THEN "Pascal" ELSE "Upper"
    ELSE IF Len(s) >= 2 /\ ~(IsLowercase(s[2]) \/ s[2] = "_") THEN "Camel" ELSE "Snake"

\* CaseType::case on a non-empty string
CaseType_case(s) ==
    IF IsUppercase(s[1])
    THEN IF \E i \in 2..Len(s) : ~(IsUppercase(s[i]) \/ s[i] = "_") THEN "Pascal" ELSE "Upper"
    ELSE IF \E i \in 2..Len(s) : ~(IsLowercase(s[i]) \/ s[i] = "_") THEN "Camel" ELSE "Snake"

RECURSIVE SplitUppercase(_, _, _, _)
\* The char_indices loop of Name::from for Camel (skipFirst = FALSE) and
\* Pascal (skipFirst = TRUE); i and slice_start are 0-based.
SplitUppercase(orig, i, slice_start, skipFirst) ==
    IF i >= Len(orig)
    THEN <<ToLowercase(Slice(orig, slice_start, Len(orig)))>>
    ELSE IF IsUppercase(orig[i + 1]) /\ (~skipFirst \/ i # 0)
         THEN <<ToLowercase(Slice(orig, slice_start, i))>> \o SplitUppercase(orig, i + 1, i, skipFirst)
         ELSE SplitUppercase(orig, i + 1, slice_start, skipFirst)

NameWords(orig) ==
    LET case == CaseType_case(orig)
    IN  IF case = "Camel" THEN SplitUppercase(orig, 0, 0, FALSE)
        ELSE IF case = "Pascal" THEN SplitUppercase(orig, 0, 0, TRUE)
        ELSE IF case = "Snake" THEN SplitOn(orig, "_")
        ELSE LET ws == SplitOn(orig, "_") IN [i \in DOMAIN ws |-> ToLowercase(ws[i])]

\* impl From<(String, Span)> for Name
NameFrom(orig) == [orig |-> orig, words |-> NameWords(orig), name_override |-> None]

\* Faulty variant of override_name: the new name replaces orig
Name_override_name_ReplacesOrig(name, new_name) ==
    [name EXCEPT !.orig = new_name, !.name_override = Some(new_name)]

\* Name::override_name
Name_override_name(name, new_name) == [name EXCEPT !.name_override = Some(new_name)]

\* Faulty variant of capitalize: the word is left in lowercase
Word_capitalize_Lowercase(w) == w

\* Word::capitalize
Word_capitalize(w) ==
    IF w = <<>> THEN <<>> ELSE ToUppercase(<<w[1]>>) \o Tail(w)

\* Name::to_case
Name_to_case(name, case) ==
    IF IsSome(name.name_override)
    THEN Unwrap(name.name_override)
    ELSE IF case = "Camel"
         THEN name.words[1] \o Join([i \in 1..(Len(name.words) - 1) |-> Word_capitalize(name.words[i + 1])], <<>>)
         ELSE IF case = "Pascal"
              THEN Join([i \in DOMAIN name.words |-> Word_capitalize(name.words[i])], <<>>)
              ELSE IF case = "Snake"
                   THEN Join(name.words, <<"_">>)
                   ELSE Join([i \in DOMAIN name.words |-> ToUppercase(name.words[i])], <<"_">>)

\* Name::to_type_ident
Name_to_type_ident(name) == Name_to_case(name, "Pascal")

RECURSIVE StringOf(_)
\* The characters of an identifier as one string, ident_str.as_str()
StringOf(chars) == IF chars = <<>> THEN "" ELSE Head(chars) \o StringOf(Tail(chars))

RUST_KEYWORDS ==
    { "as", "async", "await", "break", "const", "continue", "dyn", "else", "enum", "extern", "false",
      "fn", "for", "if", "impl", "in", "let", "loop", "match", "mod", "move", "mut", "pub", "ref",
      "return", "static", "struct", "trait", "true", "type", "unsafe", "use", "where", "while",
      "abstract", "become", "box", "do", "final", "macro", "override", "priv", "try", "gen", "typeof",
      "unsized", "virtual", "yield",
      "macro_rules", "union", "'static", "safe", "raw" }

RUST_INESCAPABLE_KEYWORDS == { "crate", "self", "super" }

\* proc_macro2::Ident::new
Ident_new(sym) == [raw |-> FALSE, sym |-> sym]

\* proc_macro2::Ident::new_raw
Ident_new_raw(sym) == [raw |-> TRUE, sym |-> sym]

\* Ident::to_string: a raw identifier prints with its r# prefix
Ident_to_string(ident) == IF ident.raw THEN <<"r", "#">> \o ident.sym ELSE ident.sym

\* Name::to_var_ident
Name_to_var_ident(name) ==
    LET ident_str == Name_to_case(name, "Snake")
    IN  IF Len(name.words) = 1 /\ StringOf(ident_str) \in RUST_INESCAPABLE_KEYWORDS
        THEN Ident_new(<<"r", "_">> \o ident_str)
        ELSE IF Len(name.words) = 1 /\ StringOf(ident_str) \in RUST_KEYWORDS
             THEN Ident_new_raw(ident_str)
             ELSE Ident_new(ident_str)

(***************************************************************************)
(* graphql.rs: Scalar and FieldType                                        *)
(***************************************************************************)
S_String == <<"S", "t", "r", "i", "n", "g">>

S_ID == <<"I", "D">>

S_Int == <<"I", "n", "t">>

S_Float == <<"F", "l", "o", "a", "t">>

S_Boolean == <<"B", "o", "o", "l", "e", "a", "n">>

S_AWSEmail == <<"A", "W", "S", "E", "m", "a", "i", "l">>

S_AWSPhone == <<"A", "W", "S", "P", "h", "o", "n", "e">>

S_AWSTimestamp == <<"A", "W", "S", "T", "i", "m", "e", "s", "t", "a", "m", "p">>

S_AWSDate == <<"A", "W", "S", "D", "a", "t", "e">>

S_AWSTime == <<"A", "W", "S", "T", "i", "m", "e">>

S_AWSDateTime == <<"A", "W", "S", "D", "a", "t", "e", "T", "i", "m", "e">>

S_AWSJSON == <<"A", "W", "S", "J", "S", "O", "N">>

S_AWSURL == <<"A", "W", "S", "U", "R", "L">>

S_AWSIPAddress == <<"A", "W", "S", "I", "P", "A", "d", "d", "r", "e", "s", "s">>

\* The match of Scalar::try_from: the pairs <<schema name, Scalar variant>>
ScalarTable ==
    { <<S_String, "String">>, <<S_ID, "ID">>, <<S_Int, "Int">>, <<S_Float, "Float">>,
      <<S_Boolean, "Boolean">>, <<S_AWSEmail, "AWSEmail">>, <<S_AWSPhone, "AWSPhone">>,
      <<S_AWSTimestamp, "AWSTimestamp">>, <<S_AWSDate, "AWSDate">>, <<S_AWSTime, "AWSTime">>,
      <<S_AWSDateTime, "AWSDateTime">>, <<S_AWSJSON, "AWSJSON">>, <<S_AWSURL, "AWSURL">>,
      <<S_AWSIPAddress, "AWSIPAddress">> }

\* Scalar::try_from: Some(variant) for Ok, None for Err(())
Scalar_try_from(value) ==
    IF \E p \in ScalarTable : p[1] = value
    THEN Some((CHOOSE p \in ScalarTable : p[1] = value)[2])
    ELSE None

\* The variants of enum FieldType
FT_Overriden(ty) == [k |-> "Overriden", ty |-> ty]

FT_Custom(name) == [k |-> "Custom", name |-> name]

FT_Scalar(scalar) == [k |-> "Scalar", scalar |-> scalar]

FT_List(inner) == [k |-> "List", of |-> inner]

FT_Optionnal(inner) == [k |-> "Optionnal", of |-> inner]

\* FieldType::from_string
FieldType_from_string(name) ==
    IF IsSome(Scalar_try_from(name))
    THEN FT_Scalar(Unwrap(Scalar_try_from(name)))
    ELSE FT_Custom(NameFrom(name))

\* Faulty variant of is_optionnal: no type is seen as optional
FieldType_is_optionnal_Never(ft) == FALSE

\* FieldType::is_optionnal
FieldType_is_optionnal(ft) == ft.k = "Optionnal"

\* TypeOverride::type_ident
TypeOverride_type_ident(type_override) == type_override.type_ident

RECURSIVE FieldType_override_type(_, _)
\* Faulty variant of override_type: a List is replaced whole instead of being
\* recursed into
FieldType_override_type_ReplacesList(ft, type_override) ==
    IF ft.k \in {"Overriden", "Custom", "Scalar", "List"}
    THEN FT_Overriden(TypeOverride_type_ident(type_override))
    ELSE FT_Optionnal(FieldType_override_type(ft.of, type_override))

\* FieldType::override_type
FieldType_override_type(ft, type_override) ==
    IF ft.k \in {"Overriden", "Custom", "Scalar"}
    THEN FT_Overriden(TypeOverride_type_ident(type_override))
    ELSE IF ft.k = "List"
         THEN FT_List(FieldType_override_type(ft.of, type_override))
         ELSE FT_Optionnal(FieldType_override_type(ft.of, type_override))

\* graphql_parser::schema::Type
GQL_NamedType(name) == [k |-> "NamedType", name |-> name]

GQL_ListType(inner) == [k |-> "ListType", of |-> inner]

GQL_NonNullType(inner) == [k |-> "NonNullType", of |-> inner]

RECURSIVE FieldType_from(_)
\* Faulty variant of FieldType::from: the list under a "!" is still wrapped in
\* an Optionnal
FieldType_from_OptionalNonNullList(value) ==
    IF value.k = "NamedType"
    THEN FT_Optionnal(FieldType_from_string(value.name))
    ELSE IF value.k = "ListType"
         THEN FT_Optionnal(FT_List(FieldType_from(value.of)))
         ELSE IF value.of.k = "NamedType"
              THEN FieldType_from_string(value.of.name)
              ELSE FT_Optionnal(FT_List(FieldType_from(value.of.of)))

\* impl From<graphql_parser::schema::Type> for FieldType.  The grammar of
\* graphql_parser never nests NonNullType directly in NonNullType, so the
\* unreachable!() arm has no counterpart here.
FieldType_from(value) ==
    IF value.k = "NamedType"
    THEN FT_Optionnal(FieldType_from_string(value.name))
    ELSE IF value.k = "ListType"
         THEN FT_Optionnal(FT_List(FieldType_from(value.of)))
         ELSE IF value.of.k = "NamedType"
              THEN FieldType_from_string(value.of.name)
              ELSE FT_List(FieldType_from(value.of.of))

(***************************************************************************)
(* Identifiers used by the schema documents and the override directives    *)
(***************************************************************************)
N_Query == <<"Q", "u", "e", "r", "y">>

N_Mutation == <<"M", "u", "t", "a", "t", "i", "o", "n">>

N_Subscription == <<"S", "u", "b", "s", "c", "r", "i", "p", "t", "i", "o", "n">>

N_Root == <<"R", "o", "o", "t">>

N_Player == <<"P", "l", "a", "y", "e", "r">>

N_Team == <<"T", "e", "a", "m">>

N_PlayerInput == <<"P", "l", "a", "y", "e", "r", "I", "n", "p", "u", "t">>

N_DateTime == <<"D", "a", "t", "e", "T", "i", "m", "e">>

N_id == <<"i", "d">>

N_name == <<"n", "a", "m", "e">>

N_team == <<"t", "e", "a", "m">>

N_type == <<"t", "y", "p", "e">>

N_myField == <<"m", "y", "F", "i", "e", "l", "d">>

N_RUST == <<"R", "U", "S", "T">>

N_PYTHON == <<"P", "Y", "T", "H", "O", "N">>

N_player == <<"p", "l", "a", "y", "e", "r">>

N_players == <<"p", "l", "a", "y", "e", "r", "s">>

N_createPlayer == <<"c", "r", "e", "a", "t", "e", "P", "l", "a", "y", "e", "r">>

N_onCreate == <<"o", "n", "C", "r", "e", "a", "t", "e">>

N_input == <<"i", "n", "p", "u", "t">>

N_DoesNotExist == <<"D", "o", "e", "s", "N", "o", "t", "E", "x", "i", "s", "t">>

N_nope == <<"n", "o", "p", "e">>

N_bad == <<"b", "a", "d">>

N_NOPE == <<"N", "O", "P", "E">>

N_email == <<"e", "m", "a", "i", "l">>

N_Snake == <<"S", "n", "a", "k", "e">>

N_NewPlayer == <<"N", "e", "w", "P", "l", "a", "y", "e", "r">>

N_NewTeam == <<"N", "e", "w", "T", "e", "a", "m">>

N_renamed == <<"r", "e", "n", "a", "m", "e", "d">>

N_WeirdFieldNames == <<"W", "e", "i", "r", "d", "F", "i", "e", "l", "d", "N", "a", "m", "e", "s">>

N_crate == <<"c", "r", "a", "t", "e">>

N_await == <<"a", "w", "a", "i", "t">>

N_no_crate == <<"n", "o", "_", "c", "r", "a", "t", "e">>

N_kind == <<"k", "i", "n", "d">>

N_self == <<"s", "e", "l", "f">>

\* TypeOverride of overrides.rs; type_ident is the target syn::Type
TypeOverride(type_name, field_name, arg_name, type_ident) ==
    [type_name |-> type_name, field_name |-> field_name, arg_name |-> arg_name, type_ident |-> type_ident]

\* NameOverride of the name_override directive: Type[.field]: NewName
NameOverride(type_name, field_name, new_name) ==
    [type_name |-> type_name, field_name |-> field_name, new_name |-> new_name]

(***************************************************************************)
(* HashMap helpers.  A HashMap is a function on its key set; into_values() *)
(* yields the values in an order the program does not control.             *)
(***************************************************************************)
\* HashMap::get / the value HashMap::remove returns
MapGet(m, k) == IF k \in DOMAIN m THEN Some(m[k]) ELSE None

\* The map HashMap::remove leaves behind
MapWithout(m, k) == [x \in DOMAIN m \ {k} |-> m[x]]

\* All enumerations of a finite set
Perms(S) ==
    { p \in [1..Cardinality(S) -> S] : \A i, j \in 1..Cardinality(S) : p[i] = p[j] => i = j }

\* HashMap::into_values: every order the values can come in
ValueOrders(m) == { [i \in 1..Cardinality(DOMAIN m) |-> m[p[i]]] : p \in Perms(DOMAIN m) }

RECURSIVE ConcatChoices(_)
\* The concatenations that take one sequence from each set of a sequence of sets
ConcatChoices(ss) ==
    IF ss = <<>> THEN {<<>>}
    ELSE { h \o t : h \in Head(ss), t \in ConcatChoices(Tail(ss)) }

SeqMap(Op(_), s) == [i \in DOMAIN s |-> Op(s[i])]

\* Vec::swap_remove(index), index 0-based: the last element takes the place
\* of the removed one
SwapRemove(v, index) ==
    LET n == Len(v)
    IN  IF index + 1 = n THEN SubSeq(v, 1, n - 1)
        ELSE [i \in 1..(n - 1) |-> IF i = index + 1 THEN v[n] ELSE v[i]]

(***************************************************************************)
(* syn::Error: a sequence of messages; combine() appends.  In the message  *)
(* texts ' stands for the backquote of the source.                         *)
(***************************************************************************)
\* The span of one identifier of a directive
SpanOf(directive, part) == [of |-> Some(directive), part |-> part]

\* The span of the schema path handed to GraphQLSchema::new
SchemaSpan == [of |-> None, part |-> "schema_path"]

\* syn::Error::new(span, format!(text, args..))
ErrorNew(span, text, args) == <<[span |-> span, text |-> text, args |-> args]>>

\* flat_map over a field's overrides: to.0.into_iter().chain(to.1.into_values())
FieldOverrideOrders(fo) == { fo[1] \o tail : tail \in ValueOrders(fo[2]) }

\* into_values().flat_map(|to| to.0.into_iter().chain(to.1.into_values()))
FlatOverrideOrders(m) ==
    UNION { ConcatChoices([i \in 1..Cardinality(DOMAIN m) |-> FieldOverrideOrders(m[p[i]])]) :
            p \in Perms(DOMAIN m) }

RECURSIVE Flatten(_)
\* errors.into_iter().reduce(combine), and Iterator::flatten in general
Flatten(ss) == IF ss = <<>> THEN <<>> ELSE Head(ss) \o Flatten(Tail(ss))

(***************************************************************************)
(* graphql.rs: Field, Structure, Enum, Operation, Operations               *)
(***************************************************************************)
\* impl From<graphql_parser::schema::Field> for Field
Field_from_Field(value) ==
    [name |-> NameFrom(value.name), field_type |-> FieldType_from(value.field_type)]

\* impl From<graphql_parser::schema::InputValue> for Field
Field_from_InputValue(value) ==
    [name |-> NameFrom(value.name), field_type |-> FieldType_from(value.value_type)]

\* impl From<graphql_parser::schema::ObjectType> for Structure
Structure_from_ObjectType(value) ==
    [name |-> NameFrom(value.name), fields |-> SeqMap(Field_from_Field, value.fields)]

\* impl From<graphql_parser::schema::InputObjectType> for Structure
Structure_from_InputObjectType(value) ==
    [name |-> NameFrom(value.name), fields |-> SeqMap(Field_from_InputValue, value.fields)]

\* Faulty variant of the conversion: the last value of the declaration is
\* not collected
Enum_from_DropsLast(value) ==
    [name |-> NameFrom(value.name),
     variants |-> [i \in 1..(Len(value.values) - 1) |-> NameFrom(value.values[i].name)]]

\* impl From<graphql_parser::schema::EnumType> for Enum
Enum_from(value) ==
    [name |-> NameFrom(value.name), variants |-> [i \in DOMAIN value.values |-> NameFrom(value.values[i].name)]]

\* impl From<graphql_parser::schema::Field> for Operation
Operation_from(value) ==
    [name |-> NameFrom(value.name),
     args |-> SeqMap(Field_from_InputValue, value.arguments),
     return_type |-> FieldType_from(value.field_type)]

\* impl From<graphql_parser::schema::ObjectType> for Operations
Operations_from(value) == SeqMap(Operation_from, value.fields)

ArgsMisuseError(to) ==
    ErrorNew(SpanOf(to, "arg_name"), "Using args overrides is only supported on operations", <<>>)

NoFieldError(to) ==
    ErrorNew(SpanOf(to, "field_name"), "No field '{}' in '{}'", <<to.field_name, to.type_name>>)

RECURSIVE Structure_type_overrides_loop(_, _, _, _)
\* Faulty variant of the loop of Structure::apply_type_overrides: the direct
\* override is applied only when the field has no argument overrides
Structure_type_overrides_loop_ElseIf(fields, i, type_overrides, errors) ==
    IF i > Len(fields)
    THEN [fields |-> fields, type_overrides |-> type_overrides, errors |-> errors]
    ELSE LET field_name == fields[i].name.orig
             removed == MapGet(type_overrides, field_name)
         IN  IF IsSome(removed)
             THEN LET field_override == Unwrap(removed)[1]
                      args_override == Unwrap(removed)[2]
                      errors2 == IF DOMAIN args_override # {}
                                 THEN Append(errors, { Flatten(SeqMap(ArgsMisuseError, o)) : o \in ValueOrders(args_override) })
                                 ELSE errors
                      fields2 == IF DOMAIN args_override = {} /\ IsSome(field_override)
                                 THEN [fields EXCEPT ![i].field_type = FieldType_override_type(@, Unwrap(field_override))]
                                 ELSE fields
                  IN  Structure_type_overrides_loop(fields2, i + 1, MapWithout(type_overrides, field_name), errors2)
             ELSE Structure_type_overrides_loop(fields, i + 1, type_overrides, errors)

\* The loop over self.fields of Structure::apply_type_overrides; errors is
\* the sequence of the sets of message sequences each extend() can append
Structure_type_overrides_loop(fields, i, type_overrides, errors) ==
    IF i > Len(fields)
    THEN [fields |-> fields, type_overrides |-> type_overrides, errors |-> errors]
    ELSE LET field_name == fields[i].name.orig
             removed == MapGet(type_overrides, field_name)
         IN  IF IsSome(removed)
             THEN LET field_override == Unwrap(removed)[1]
                      args_override == Unwrap(removed)[2]
                      errors2 == IF DOMAIN args_override # {}
                                 THEN Append(errors, { Flatten(SeqMap(ArgsMisuseError, o)) : o \in ValueOrders(args_override) })
                                 ELSE errors
                      fields2 == IF IsSome(field_override)
                                 THEN [fields EXCEPT ![i].field_type = FieldType_override_type(@, Unwrap(field_override))]
                                 ELSE fields
                  IN  Structure_type_overrides_loop(fields2, i + 1, MapWithout(type_overrides, field_name), errors2)
             ELSE Structure_type_overrides_loop(fields, i + 1, type_overrides, errors)

\* Structure::apply_type_overrides: the structure afterwards and the set of
\* combined errors it can return (the empty sequence stands for Ok(()))
Structure_apply_type_overrides(self, type_overrides) ==
    LET r == Structure_type_overrides_loop(self.fields, 1, type_overrides, <<>>)
        rest == { Flatten(SeqMap(NoFieldError, o)) : o \in FlatOverrideOrders(r.type_overrides) }
    IN  [self |-> [self EXCEPT !.fields = r.fields],
         errors |-> ConcatChoices(Append(r.errors, rest))]

RECURSIVE Names_overrides_loop(_, _, _)
\* The loop over the fields or variants of apply_name_overrides; names is
\* the sequence of their Names
Names_overrides_loop(names, i, field_overrides) ==
    IF i > Len(names)
    THEN [names |-> names, field_overrides |-> field_overrides]
    ELSE LET field_name == names[i].orig
             removed == MapGet(field_overrides, field_name)
         IN  IF IsSome(removed)
             THEN Names_overrides_loop([names EXCEPT ![i] = Name_override_name(@, Unwrap(removed).new_name)],
                                       i + 1, MapWithout(field_overrides, field_name))
             ELSE Names_overrides_loop(names, i + 1, field_overrides)

NoFieldNameError(no) ==
    ErrorNew(SpanOf(no, "field_name"), "No field '{}' in '{}'", <<Unwrap(no.field_name), no.type_name>>)

NoVariantError(no) ==
    ErrorNew(SpanOf(no, "field_name"), "No variant '{}' in '{}'", <<Unwrap(no.field_name), no.type_name>>)

RECURSIVE FieldType_rename_leaf(_, _)
\* Faulty step: the new name of a type is written into a reference to a type
FieldType_rename_leaf(ft, new_name) ==
    IF ft.k \in {"List", "Optionnal"}
    THEN [ft EXCEPT !.of = FieldType_rename_leaf(ft.of, new_name)]
    ELSE IF ft.k = "Custom" THEN FT_Custom(Name_override_name(ft.name, new_name)) ELSE ft

\* Faulty variant of Structure::apply_name_overrides: the new name of the
\* type is carried into the field types that name a type
Structure_apply_name_overrides_RenamesReferences(self, name_override) ==
    LET type_override == name_override[1]
        name2 == IF IsSome(type_override)
                 THEN Name_override_name(self.name, Unwrap(type_override).new_name)
                 ELSE self.name
        r == Names_overrides_loop([i \in DOMAIN self.fields |-> self.fields[i].name], 1, name_override[2])
    IN  [self |-> [name |-> name2,
                   fields |-> [i \in DOMAIN self.fields |->
                                 [self.fields[i] EXCEPT
                                     !.name = r.names[i],
                                     !.field_type = IF IsSome(type_override)
                                                    THEN FieldType_rename_leaf(@, Unwrap(type_override).new_name)
                                                    ELSE @]]],
         errors |-> { Flatten(SeqMap(NoFieldNameError, o)) : o \in ValueOrders(r.field_overrides) }]

\* Structure::apply_name_overrides
Structure_apply_name_overrides(self, name_override) ==
    LET type_override == name_override[1]
        name2 == IF IsSome(type_override)
                 THEN Name_override_name(self.name, Unwrap(type_override).new_name)
                 ELSE self.name
        r == Names_overrides_loop([i \in DOMAIN self.fields |-> self.fields[i].name], 1, name_override[2])
    IN  [self |-> [name |-> name2,
                   fields |-> [i \in DOMAIN self.fields |-> [self.fields[i] EXCEPT !.name = r.names[i]]]],
         errors |-> { Flatten(SeqMap(NoFieldNameError, o)) : o \in ValueOrders(r.field_overrides) }]

\* Enum::apply_name_overrides
Enum_apply_name_overrides(self, name_override) ==
    LET type_override == name_override[1]
        name2 == IF IsSome(type_override)
                 THEN Name_override_name(self.name, Unwrap(type_override).new_name)
                 ELSE self.name
        r == Names_overrides_loop(self.variants, 1, name_override[2])
    IN  [self |-> [name |-> name2, variants |-> r.names],
         errors |-> { Flatten(SeqMap(NoVariantError, o)) : o \in ValueOrders(r.field_overrides) }]

RECURSIVE Operation_args_loop(_, _, _)
\* The loop over self.args of Operation::apply_type_overrides
Operation_args_loop(args, i, arg_type_overrides) ==
    IF i > Len(args)
    THEN [args |-> args, arg_type_overrides |-> arg_type_overrides]
    ELSE LET arg_name == args[i].name.orig
             removed == MapGet(arg_type_overrides, arg_name)
         IN  IF IsSome(removed)
             THEN Operation_args_loop([args EXCEPT ![i].field_type = FieldType_override_type(@, Unwrap(removed))],
                                      i + 1, MapWithout(arg_type_overrides, arg_name))
             ELSE Operation_args_loop(args, i + 1, arg_type_overrides)

NoArgumentError(to) ==
    ErrorNew(SpanOf(to, "arg_name"), "No argument '{}' in operation '{}::{}'",
             <<Unwrap(to.arg_name), to.type_name, to.field_name>>)

\* Operation::apply_type_overrides
Operation_apply_type_overrides(self, field_override) ==
    LET field_type_override == field_override[1]
        return_type2 == IF IsSome(field_type_override)
                        THEN FieldType_override_type(self.return_type, Unwrap(field_type_override))
                        ELSE self.return_type
        r == Operation_args_loop(self.args, 1, field_override[2])
    IN  [self |-> [name |-> self.name, args |-> r.args, return_type |-> return_type2],
         errors |-> { Flatten(SeqMap(NoArgumentError, o)) : o \in ValueOrders(r.arg_type_overrides) }]

NoOperationError(to) ==
    ErrorNew(SpanOf(to, "field_name"), "No operation '{}' in '{}'", <<to.field_name, to.type_name>>)

RECURSIVE Operations_type_overrides_loop(_, _, _, _)
\* The loop over self.0 of Operations::apply_type_overrides
Operations_type_overrides_loop(ops, i, type_overrides, errors) ==
    IF i > Len(ops)
    THEN [ops |-> ops, type_overrides |-> type_overrides, errors |-> errors]
    ELSE LET op_name == ops[i].name.orig
             removed == MapGet(type_overrides, op_name)
         IN  IF IsSome(removed)
             THEN LET r == Operation_apply_type_overrides(ops[i], Unwrap(removed))
                  IN  Operations_type_overrides_loop([ops EXCEPT ![i] = r.self], i + 1,
                                                     MapWithout(type_overrides, op_name),
                                                     Append(errors, r.errors))
             ELSE Operations_type_overrides_loop(ops, i + 1, type_overrides, errors)

\* Faulty variant of Operations::apply_type_overrides: the overrides no
\* operation consumed are dropped without an error
Operations_apply_type_overrides_DropsRest(self, type_overrides) ==
    LET r == Operations_type_overrides_loop(self, 1, type_overrides, <<>>)
    IN  [self |-> r.ops, errors |-> ConcatChoices(r.errors)]

\* Operations::apply_type_overrides
Operations_apply_type_overrides(self, type_overrides) ==
    LET r == Operations_type_overrides_loop(self, 1, type_overrides, <<>>)
        rest == { Flatten(SeqMap(NoOperationError, o)) : o \in FlatOverrideOrders(r.type_overrides) }
    IN  [self |-> r.ops, errors |-> ConcatChoices(Append(r.errors, rest))]

(***************************************************************************)
(* graphql.rs: SchemaDefinition                                            *)
(***************************************************************************)
\* impl Default for SchemaDefinition
SchemaDefinition_default ==
    [query |-> N_Query, mutation |-> N_Mutation, subscription |-> N_Subscription]

\* Faulty variant of SchemaDefinition::from: only the query root of the
\* schema block is taken
SchemaDefinition_from_QueryOnly(value) ==
    [query |-> IF IsSome(value.query) THEN Unwrap(value.query) ELSE SchemaDefinition_default.query,
     mutation |-> SchemaDefinition_default.mutation,
     subscription |-> SchemaDefinition_default.subscription]

\* impl From<graphql_parser::schema::SchemaDefinition> for SchemaDefinition
SchemaDefinition_from(value) ==
    [query |-> IF IsSome(value.query) THEN Unwrap(value.query) ELSE SchemaDefinition_default.query,
     mutation |-> IF IsSome(value.mutation) THEN Unwrap(value.mutation) ELSE SchemaDefinition_default.mutation,
     subscription |-> IF IsSome(value.subscription) THEN Unwrap(value.subscription)
                      ELSE SchemaDefinition_default.subscription]

\* SchemaDefinition::schema_definition: Some(kind) or None
SchemaDefinition_schema_definition(self, name) ==
    IF name = self.query THEN Some("Query")
    ELSE IF name = self.mutation THEN Some("Mutation")
    ELSE IF name = self.subscription THEN Some("Subscription")
    ELSE None

(***************************************************************************)
(* graphql_parser documents                                                *)
(***************************************************************************)
GField(name, arguments, field_type) ==
    [name |-> name, arguments |-> arguments, field_type |-> field_type]

GInputValue(name, value_type) == [name |-> name, value_type |-> value_type]

GObject(name, fields) == [def |-> "Object", name |-> name, fields |-> fields]

GInputObject(name, fields) == [def |-> "InputObject", name |-> name, fields |-> fields]

GEnum(name, values) ==
    [def |-> "Enum", name |-> name, values |-> [i \in DOMAIN values |-> [name |-> values[i]]]]

GSchema(query, mutation, subscription) ==
    [def |-> "SchemaDefinition", query |-> query, mutation |-> mutation, subscription |-> subscription]

\* Scalar, Interface, Union, TypeExtension and DirectiveDefinition declarations
GOther(def, name) == [def |-> def, name |-> name]

T_Named(n) == GQL_NamedType(n)

T_Req(n) == GQL_NonNullType(GQL_NamedType(n))

G_Player ==
    GObject(N_Player,
            << GField(N_id, <<>>, T_Req(S_ID)),
               GField(N_name, <<>>, T_Req(S_String)),
               GField(N_team, <<>>, T_Named(N_Team)),
               GField(N_type, <<>>, GQL_ListType(T_Req(S_String))) >>)

G_Team == GEnum(N_Team, <<N_RUST, N_PYTHON>>)

G_PlayerInput ==
    GInputObject(N_PlayerInput,
                 << GInputValue(N_name, T_Req(S_String)),
                    GInputValue(N_myField, T_Named(S_Int)) >>)

G_QueryFields ==
    << GField(N_player, <<GInputValue(N_id, T_Req(S_ID))>>, T_Named(N_Player)),
       GField(N_players, <<>>, GQL_NonNullType(GQL_ListType(T_Req(N_Player)))) >>

G_Mutation ==
    GObject(N_Mutation,
            << GField(N_createPlayer, <<GInputValue(N_input, T_Req(N_PlayerInput))>>, T_Req(N_Player)) >>)

G_Subscription ==
    GObject(N_Subscription,
            << GField(N_onCreate, <<GInputValue(N_name, T_Named(S_String))>>, T_Named(N_Player)) >>)

\* A schema with the default root names, every kind of declaration, no schema block
DocMain ==
    << GObject(N_Query, G_QueryFields), G_Player, GOther("Scalar", N_DateTime), G_Team,
       G_PlayerInput, G_Mutation, G_Subscription >>

\* One schema block that names Root as the query root
DocSchemaBlock ==
    << GSchema(Some(N_Root), None, None), GObject(N_Root, G_QueryFields), G_Player, G_Team >>

\* Two schema blocks, declarations between and after them
DocTwoSchemas ==
    << GSchema(None, None, None), G_Player, GSchema(None, None, None), G_Team >>

\* Two schema blocks, the second one the last declaration
DocTwoSchemasLast ==
    << GSchema(None, None, None), G_Player, GSchema(None, None, None) >>

Documents == {DocMain, DocSchemaBlock, DocTwoSchemas, DocTwoSchemasLast}

\* Field names that are Rust keywords, as in the schema of the tests
G_WeirdFieldNames ==
    GObject(N_WeirdFieldNames,
            << GField(N_crate, <<>>, T_Req(S_String)),
               GField(N_await, <<>>, T_Named(S_String)),
               GField(N_myField, <<>>, T_Req(S_String)) >>)

\* The schema whose generated types are exercised
DocRuntime == DocMain \o <<G_WeirdFieldNames>>

RuntimeDocuments == {DocRuntime, DocTwoSchemasLast}

(***************************************************************************)
(* Override directives and the maps GraphQLSchema::new receives            *)
(***************************************************************************)
TypeDirectivePool ==
    { TypeOverride(N_Player, N_id, None, "String"),
      TypeOverride(N_Player, N_id, Some(N_bad), "u32"),
      TypeOverride(N_Player, N_type, None, "Kind"),
      TypeOverride(N_Player, N_nope, None, "String"),
      TypeOverride(N_Player, N_nope, Some(N_bad), "u32"),
      TypeOverride(N_DoesNotExist, N_id, None, "String"),
      TypeOverride(N_Query, N_player, None, "NewPlayer"),
      TypeOverride(N_Query, N_player, Some(N_id), "String"),
      TypeOverride(N_Query, N_player, Some(N_bad), "String"),
      TypeOverride(N_Query, N_nope, None, "String"),
      TypeOverride(N_Team, N_RUST, None, "String"),
      TypeOverride(N_PlayerInput, N_name, None, "u32"),
      TypeOverride(N_Subscription, N_onCreate, None, "String") }

NameDirectivePool ==
    { NameOverride(N_Player, None, N_NewPlayer),
      NameOverride(N_Player, Some(N_name), N_email),
      NameOverride(N_Player, Some(N_nope), N_renamed),
      NameOverride(N_Team, None, N_NewTeam),
      NameOverride(N_Team, Some(N_PYTHON), N_Snake),
      NameOverride(N_Team, Some(N_NOPE), N_renamed),
      NameOverride(N_DoesNotExist, None, N_renamed),
      NameOverride(N_DoesNotExist, Some(N_id), N_renamed),
      NameOverride(N_Query, Some(N_players), N_renamed),
      NameOverride(N_PlayerInput, Some(N_myField), N_renamed) }

\* The number of directives of one macro invocation
MaxDirectives == 2

\* The directives given when the generated types are exercised: renames of
\* types, fields and variants, and the type overrides that go with them
RuntimeDirectivePool ==
    { NameOverride(N_Player, None, N_NewPlayer),
      NameOverride(N_Player, Some(N_name), N_email),
      NameOverride(N_Player, Some(N_type), N_kind),
      NameOverride(N_Player, Some(N_id), N_self),
      NameOverride(N_Team, None, N_NewTeam),
      NameOverride(N_Team, Some(N_PYTHON), N_Snake),
      NameOverride(N_WeirdFieldNames, Some(N_crate), N_no_crate),
      NameOverride(N_WeirdFieldNames, Some(N_myField), N_renamed),
      TypeOverride(N_Player, N_team, None, "NewTeam"),
      TypeOverride(N_Player, N_team, None, "String"),
      TypeOverride(N_Player, N_id, None, "String"),
      TypeOverride(N_Player, N_id, None, "Option<String>") }

IsTypeDirective(d) == "type_ident" \in DOMAIN d

RECURSIVE SubsetsUpTo(_, _)
SubsetsUpTo(S, k) ==
    IF k = 0 THEN {{}}
    ELSE LET prev == SubsetsUpTo(S, k - 1)
         IN  prev \cup { q \cup {x} : q \in prev, x \in S }

\* TypeOverrides: TypeName -> FieldName -> (Option<TypeOverride>, ArgName -> TypeOverride)
TypeOverridesOf(D) ==
    [t \in { d.type_name : d \in D } |->
        [f \in { d.field_name : d \in { e \in D : e.type_name = t } } |->
            LET here == { d \in D : d.type_name = t /\ d.field_name = f }
                direct == { d \in here : d.arg_name = None }
                withArg == here \ direct
            IN  << IF direct = {} THEN None ELSE Some(CHOOSE d \in direct : TRUE),
                   [a \in { Unwrap(d.arg_name) : d \in withArg } |->
                       CHOOSE d \in withArg : Unwrap(d.arg_name) = a] >>]]

\* NameOverrides: TypeName -> (Option<NameOverride>, FieldName -> NameOverride)
NameOverridesOf(D) ==
    [t \in { d.type_name : d \in D } |->
        LET here == { d \in D : d.type_name = t }
            direct == { d \in here : d.field_name = None }
            withField == here \ direct
        IN  << IF direct = {} THEN None ELSE Some(CHOOSE d \in direct : TRUE),
               [f \in { Unwrap(d.field_name) : d \in withField } |->
                   CHOOSE d \in withField : Unwrap(d.field_name) = f] >>]

VARIABLES tpc, gtype, ftype0, applied, hist,
          pc, in_doc, in_tos, in_nos, defs, sd, tos, nos, errors,
          queries, mutations, subscriptions, structures, enums, result,
          code, wop,
          prog, tasks, results,
          ident, nname, nres,
          parsed, options, outputs, fct, accepted,
          call, returned

typeVars == <<tpc, gtype, ftype0, applied, hist>>

newVars ==
    <<pc, in_doc, in_tos, in_nos, defs, sd, tos, nos, errors,
      queries, mutations, subscriptions, structures, enums, result>>

wireVars == <<code, wop>>

reqVars == <<prog, tasks, results>>

nameVars == <<ident, nname, nres>>

macroVars == <<parsed, options, outputs, fct, accepted, call, returned>>

vars == <<typeVars, newVars, wireVars, reqVars, nameVars, macroVars>>

\* No macro invocation is being parsed or expanded, no library function called
MacroIdle ==
    /\ call = None
    /\ returned = None
    /\ parsed = <<>>
    /\ options = None
    /\ outputs = None
    /\ fct = None
    /\ accepted = None

\* No identifier is being converted
NameIdle ==
    /\ ident = <<>>
    /\ nname = None
    /\ nres = None

\* No code generated, no generated code run, no request received
WireIdle ==
    /\ code = None
    /\ wop = None
    /\ prog = None
    /\ tasks = <<>>
    /\ results = <<>>

\* The type-expression variables while GraphQLSchema::new is modelled
TypeIdle ==
    /\ tpc = "idle"
    /\ gtype = None
    /\ ftype0 = None
    /\ applied = <<>>
    /\ hist = <<>>

\* The variables of GraphQLSchema::new while type expressions are modelled
NewIdle ==
    /\ pc = "idle"
    /\ in_doc = <<>>
    /\ in_tos = <<>>
    /\ in_nos = <<>>
    /\ defs = <<>>
    /\ sd = SchemaDefinition_default
    /\ tos = <<>>
    /\ nos = <<>>
    /\ errors = <<>>
    /\ queries = None
    /\ mutations = None
    /\ subscriptions = None
    /\ structures = <<>>
    /\ enums = <<>>
    /\ result = None

(***************************************************************************)
(* FieldType::from and FieldType::override_type on bounded type            *)
(* expressions                                                             *)
(***************************************************************************)
MaxListDepth == 2

MaxOverrideApplications == 2

TypeExprNames == {S_String, S_ID, N_Player}

OverrideTargets ==
    { TypeOverride(N_Player, N_id, None, "String"), TypeOverride(N_Player, N_id, None, "u32") }

RECURSIVE GqlTypes(_)
\* The type expressions of the GraphQL grammar with at most d nested lists:
\* name, [type], and either of them followed by one "!"
GqlTypes(d) ==
    LET nullable == { GQL_NamedType(n) : n \in TypeExprNames }
                    \cup (IF d = 0 THEN {} ELSE { GQL_ListType(t) : t \in GqlTypes(d - 1) })
    IN  nullable \cup { GQL_NonNullType(t) : t \in nullable }

TypeInit ==
    /\ tpc = "parsed"
    /\ gtype \in GqlTypes(MaxListDepth)
    /\ ftype0 = None
    /\ applied = <<>>
    /\ hist = <<>>
    /\ NewIdle
    /\ WireIdle
    /\ MacroIdle
    /\ NameIdle

\* FieldType::from(value.field_type), as called by Field::from
CompileType ==
    /\ tpc = "parsed"
    /\ tpc' = "compiled"
    /\ ftype0' = Some(FieldType_from(gtype))
    /\ UNCHANGED <<macroVars, gtype, applied, hist, newVars, wireVars, reqVars, nameVars>>

\* field.field_type.override_type(type_override), on the field's current type
OverrideType ==
    /\ tpc = "compiled"
    /\ Len(applied) < MaxOverrideApplications
    /\ \E to \in OverrideTargets :
          LET cur == IF hist = <<>> THEN Unwrap(ftype0) ELSE hist[Len(hist)]
          IN  /\ applied' = Append(applied, to)
              /\ hist' = Append(hist, FieldType_override_type(cur, to))
    /\ UNCHANGED <<macroVars, tpc, gtype, ftype0, newVars, wireVars, reqVars, nameVars>>

TypeNext == CompileType \/ OverrideType

SpecType == TypeInit /\ [][TypeNext]_vars

RECURSIVE Wrappers(_)
\* The List/Optionnal layers of a FieldType, outermost first
Wrappers(ft) ==
    IF ft.k \in {"List", "Optionnal"} THEN <<ft.k>> \o Wrappers(ft.of) ELSE <<>>

RECURSIVE LeafOf(_)
\* The innermost FieldType of a chain of List/Optionnal layers
LeafOf(ft) == IF ft.k \in {"List", "Optionnal"} THEN LeafOf(ft.of) ELSE ft

RECURSIVE GqlLeafName(_)
GqlLeafName(t) == IF t.k = "NamedType" THEN t.name ELSE GqlLeafName(t.of)

RECURSIVE NullabilityLayers(_, _)
\* The layers the nullability law asks for: an Optionnal in front of every
\* named type and every list that is not the direct child of a "!"
NullabilityLayers(t, nonNull) ==
    IF t.k = "NonNullType" THEN NullabilityLayers(t.of, TRUE)
    ELSE (IF nonNull THEN <<>> ELSE <<"Optionnal">>)
         \o (IF t.k = "ListType" THEN <<"List">> \o NullabilityLayers(t.of, FALSE) ELSE <<>>)

\* The six rows of the nullability table, for the leaf x of the named type n
NullabilityTable(t, ft) ==
    \A n \in TypeExprNames :
        LET x == FieldType_from_string(n)
            ty == GQL_NamedType(n)
        IN  /\ t = ty => ft = FT_Optionnal(x)
            /\ t = GQL_NonNullType(ty) => ft = x
            /\ t = GQL_ListType(ty) => ft = FT_Optionnal(FT_List(FT_Optionnal(x)))
            /\ t = GQL_ListType(GQL_NonNullType(ty)) => ft = FT_Optionnal(FT_List(x))
            /\ t = GQL_NonNullType(GQL_ListType(ty)) => ft = FT_List(FT_Optionnal(x))
            /\ t = GQL_NonNullType(GQL_ListType(GQL_NonNullType(ty))) => ft = FT_List(x)

\* C1: FieldType::from puts an Optionnal layer around exactly the named types
\* and lists that are not directly wrapped in non-null, keeps one List layer
\* per list and the leaf of the named type, and so yields the six table rows.
C1_NullabilityLaw ==
    tpc = "compiled" =>
        /\ Wrappers(Unwrap(ftype0)) = NullabilityLayers(gtype, FALSE)
        /\ LeafOf(Unwrap(ftype0)) = FieldType_from_string(GqlLeafName(gtype))
        /\ NullabilityTable(gtype, Unwrap(ftype0))

\* A nested list with mixed nullability, [[Player!]]!, has been compiled
C1_Witness ==
    /\ tpc = "compiled"
    /\ gtype = GQL_NonNullType(GQL_ListType(GQL_ListType(GQL_NonNullType(GQL_NamedType(N_Player)))))
    /\ Unwrap(ftype0) = FT_List(FT_Optionnal(FT_List(FT_Custom(NameFrom(N_Player)))))

\* C2: every application of override_type leaves the List/Optionnal layers of
\* the field as they were and makes the leaf the override target; applying
\* the same target a second time changes nothing.
C2_OverrideTargetsLeaf ==
    \A i \in DOMAIN hist :
        /\ Wrappers(hist[i]) = Wrappers(Unwrap(ftype0))
        /\ LeafOf(hist[i]) = FT_Overriden(applied[i].type_ident)
        /\ (i > 1 /\ applied[i].type_ident = applied[i - 1].type_ident) => hist[i] = hist[i - 1]

\* [Player!] overridden twice with the same target
C2_Witness ==
    /\ Len(hist) = 2
    /\ gtype = GQL_ListType(GQL_NonNullType(GQL_NamedType(N_Player)))
    /\ applied[1] = applied[2]
    /\ hist[2] = FT_Optionnal(FT_List(FT_Overriden(applied[2].type_ident)))

(***************************************************************************)
(* GraphQLSchema::new, one step per pass of its loop over doc.definitions  *)
(***************************************************************************)
\* The entry of GraphQLSchema::new for a document of docs and the maps built
\* from at most MaxDirectives directives of pool
NewStart(docs, pool) ==
    /\ pc = "start"
    /\ in_doc \in docs
    /\ \E D \in SubsetsUpTo(pool, MaxDirectives) :
          /\ in_tos = TypeOverridesOf({ d \in D : IsTypeDirective(d) })
          /\ in_nos = NameOverridesOf({ d \in D : ~IsTypeDirective(d) })
    /\ defs = in_doc
    /\ tos = in_tos
    /\ nos = in_nos
    /\ sd = SchemaDefinition_default
    /\ errors = <<>>
    /\ queries = None
    /\ mutations = None
    /\ subscriptions = None
    /\ structures = <<>>
    /\ enums = <<>>
    /\ result = None
    /\ TypeIdle
    /\ WireIdle
    /\ MacroIdle
    /\ NameIdle

NewInit == NewStart(Documents, TypeDirectivePool \cup NameDirectivePool)

\* match ... { Ok(_) => (), Err(e) => errors.push(e) }
PushIfErr(errs, e) == IF e = <<>> THEN errs ELSE Append(errs, e)

\* The schema block is looked up, taken out with swap_remove and converted
FindSchemaDefinition ==
    /\ pc = "start"
    /\ LET found == { i \in DOMAIN defs : defs[i].def = "SchemaDefinition" }
       IN  IF found # {}
           THEN LET index == (CHOOSE i \in found : \A j \in found : i <= j) - 1
                IN  /\ defs' = SwapRemove(defs, index)
                    /\ sd' = SchemaDefinition_from(defs[index + 1])
           ELSE /\ sd' = SchemaDefinition_default
                /\ UNCHANGED defs
    /\ pc' = "loop"
    /\ UNCHANGED <<macroVars, in_doc, in_tos, in_nos, tos, nos, errors, queries, mutations, subscriptions,
                   structures, enums, result, typeVars, wireVars, reqVars, nameVars>>

\* Faulty variant: the root object also takes the name overrides of its type
\* out of the map and drops them
ProcessRootObject_ConsumesNameOverrides ==
    /\ pc = "loop"
    /\ defs # <<>>
    /\ Head(defs).def = "Object"
    /\ IsSome(SchemaDefinition_schema_definition(sd, Head(defs).name))
    /\ LET object_type == Head(defs)
           sdt == Unwrap(SchemaDefinition_schema_definition(sd, object_type.name))
           type_overrides == MapGet(tos, object_type.name)
           ops == Operations_from(object_type)
           r == IF IsSome(type_overrides)
                THEN Operations_apply_type_overrides(ops, Unwrap(type_overrides))
                ELSE [self |-> ops, errors |-> {<<>>}]
       IN  /\ tos' = MapWithout(tos, object_type.name)
           /\ nos' = MapWithout(nos, object_type.name)
           /\ \E e \in r.errors : errors' = PushIfErr(errors, e)
           /\ queries' = IF sdt = "Query" THEN Some(r.self) ELSE queries
           /\ mutations' = IF sdt = "Mutation" THEN Some(r.self) ELSE mutations
           /\ subscriptions' = IF sdt = "Subscription" THEN Some(r.self) ELSE subscriptions
    /\ defs' = Tail(defs)
    /\ UNCHANGED <<macroVars, pc, in_doc, in_tos, in_nos, sd, structures, enums, result, typeVars, wireVars, reqVars, nameVars>>

\* TypeDefinition::Object whose name is a root name of the schema definition
ProcessRootObject ==
    /\ pc = "loop"
    /\ defs # <<>>
    /\ Head(defs).def = "Object"
    /\ IsSome(SchemaDefinition_schema_definition(sd, Head(defs).name))
    /\ LET object_type == Head(defs)
           sdt == Unwrap(SchemaDefinition_schema_definition(sd, object_type.name))
           type_overrides == MapGet(tos, object_type.name)
           ops == Operations_from(object_type)
           r == IF IsSome(type_overrides)
                THEN Operations_apply_type_overrides(ops, Unwrap(type_overrides))
                ELSE [self |-> ops, errors |-> {<<>>}]
       IN  /\ tos' = MapWithout(tos, object_type.name)
           /\ \E e \in r.errors : errors' = PushIfErr(errors, e)
           /\ queries' = IF sdt = "Query" THEN Some(r.self) ELSE queries
           /\ mutations' = IF sdt = "Mutation" THEN Some(r.self) ELSE mutations
           /\ subscriptions' = IF sdt = "Subscription" THEN Some(r.self) ELSE subscriptions
    /\ defs' = Tail(defs)
    /\ UNCHANGED <<macroVars, pc, in_doc, in_tos, in_nos, sd, nos, structures, enums, result, typeVars, wireVars, reqVars, nameVars>>

\* The two override steps shared by the Object and InputObject arms
StructureOverrides(structure) ==
    LET type_overrides == MapGet(tos, structure.name.orig)
        r1 == IF IsSome(type_overrides)
              THEN Structure_apply_type_overrides(structure, Unwrap(type_overrides))
              ELSE [self |-> structure, errors |-> {<<>>}]
        name_overrides == MapGet(nos, structure.name.orig)
        r2 == IF IsSome(name_overrides)
              THEN Structure_apply_name_overrides(r1.self, Unwrap(name_overrides))
              ELSE [self |-> r1.self, errors |-> {<<>>}]
    IN  /\ tos' = MapWithout(tos, structure.name.orig)
        /\ nos' = MapWithout(nos, structure.name.orig)
        /\ \E e1 \in r1.errors, e2 \in r2.errors : errors' = PushIfErr(PushIfErr(errors, e1), e2)
        /\ structures' = Append(structures, r2.self)

\* TypeDefinition::Object that is no operation root
ProcessObject ==
    /\ pc = "loop"
    /\ defs # <<>>
    /\ Head(defs).def = "Object"
    /\ ~IsSome(SchemaDefinition_schema_definition(sd, Head(defs).name))
    /\ StructureOverrides(Structure_from_ObjectType(Head(defs)))
    /\ defs' = Tail(defs)
    /\ UNCHANGED <<macroVars, pc, in_doc, in_tos, in_nos, sd, queries, mutations, subscriptions, enums, result, typeVars, wireVars, reqVars, nameVars>>

\* TypeDefinition::InputObject
ProcessInputObject ==
    /\ pc = "loop"
    /\ defs # <<>>
    /\ Head(defs).def = "InputObject"
    /\ StructureOverrides(Structure_from_InputObjectType(Head(defs)))
    /\ defs' = Tail(defs)
    /\ UNCHANGED <<macroVars, pc, in_doc, in_tos, in_nos, sd, queries, mutations, subscriptions, enums, result, typeVars, wireVars, reqVars, nameVars>>

\* TypeDefinition::Enum
ProcessEnum ==
    /\ pc = "loop"
    /\ defs # <<>>
    /\ Head(defs).def = "Enum"
    /\ LET r_enum == Enum_from(Head(defs))
           name_overrides == MapGet(nos, r_enum.name.orig)
           r == IF IsSome(name_overrides)
                THEN Enum_apply_name_overrides(r_enum, Unwrap(name_overrides))
                ELSE [self |-> r_enum, errors |-> {<<>>}]
       IN  /\ nos' = MapWithout(nos, r_enum.name.orig)
           /\ \E e \in r.errors : errors' = PushIfErr(errors, e)
           /\ enums' = Append(enums, r.self)
    /\ defs' = Tail(defs)
    /\ UNCHANGED <<macroVars, pc, in_doc, in_tos, in_nos, sd, tos, queries, mutations, subscriptions,
                   structures, result, typeVars, wireVars, reqVars, nameVars>>

\* Scalar, Interface, Union, TypeExtension, DirectiveDefinition: ignored
SkipDefinition ==
    /\ pc = "loop"
    /\ defs # <<>>
    /\ Head(defs).def \in {"Scalar", "Interface", "Union", "TypeExtension", "DirectiveDefinition"}
    /\ defs' = Tail(defs)
    /\ UNCHANGED <<macroVars, pc, in_doc, in_tos, in_nos, sd, tos, nos, errors, queries, mutations, subscriptions,
                   structures, enums, result, typeVars, wireVars, reqVars, nameVars>>

TwoSchemaError == ErrorNew(SchemaSpan, "GraphQL schema file has two 'schema' definition", <<>>)

\* Faulty variant of the SchemaDefinition arm: the fatal error is combined
\* with the errors accumulated so far
SecondSchemaDefinition_Accumulated ==
    /\ pc = "loop"
    /\ defs # <<>>
    /\ Head(defs).def = "SchemaDefinition"
    /\ result' = Some([ok |-> FALSE, error |-> Flatten(Append(errors, TwoSchemaError))])
    /\ pc' = "done"
    /\ UNCHANGED <<macroVars, in_doc, in_tos, in_nos, defs, sd, tos, nos, errors, queries, mutations, subscriptions,
                   structures, enums, typeVars, wireVars, reqVars, nameVars>>

\* Definition::SchemaDefinition met in the loop: return Err at once
SecondSchemaDefinition ==
    /\ pc = "loop"
    /\ defs # <<>>
    /\ Head(defs).def = "SchemaDefinition"
    /\ result' = Some([ok |-> FALSE, error |-> TwoSchemaError])
    /\ pc' = "done"
    /\ UNCHANGED <<macroVars, in_doc, in_tos, in_nos, defs, sd, tos, nos, errors, queries, mutations, subscriptions,
                   structures, enums, typeVars, wireVars, reqVars, nameVars>>

NoTypeError(to) ==
    ErrorNew(SpanOf(to, "type_name"), "No type or input named '{}'", <<to.type_name>>)

NoTypeNameError(no) ==
    ErrorNew(SpanOf(no, "type_name"), "No type, enum or input named '{}'", <<no.type_name>>)

\* Faulty variant: the type overrides left in the map are not looked at
TypeOverridesOrders_Ignored(m) == {<<>>}

\* tos.into_values().flat_map(|fos| fos.into_values()).flat_map(...)
TypeOverridesOrders(m) ==
    UNION { ConcatChoices([i \in 1..Cardinality(DOMAIN m) |-> FlatOverrideOrders(m[p[i]])]) :
            p \in Perms(DOMAIN m) }

\* Option::unwrap_or_default on Option<Operations>
UnwrapOrDefault(o) == IF IsSome(o) THEN Unwrap(o) ELSE <<>>

\* After the loop: the directives left in the maps become errors, and the
\* schema or the combined error is returned
FinishNew ==
    /\ pc = "loop"
    /\ defs = <<>>
    /\ \E lt \in TypeOverridesOrders(tos), ln \in FlatOverrideOrders(nos) :
          /\ errors' = errors \o SeqMap(NoTypeError, lt) \o SeqMap(NoTypeNameError, ln)
          /\ result' = IF errors' = <<>>
                       THEN Some([ok |-> TRUE,
                                  schema |-> [queries |-> UnwrapOrDefault(queries),
                                              mutations |-> UnwrapOrDefault(mutations),
                                              subscriptions |-> UnwrapOrDefault(subscriptions),
                                              structures |-> structures,
                                              enums |-> enums]])
                       ELSE Some([ok |-> FALSE, error |-> Flatten(errors')])
    /\ tos' = <<>>
    /\ nos' = <<>>
    /\ pc' = "done"
    /\ UNCHANGED <<macroVars, in_doc, in_tos, in_nos, defs, sd, queries, mutations, subscriptions,
                   structures, enums, typeVars, wireVars, reqVars, nameVars>>

NewNext ==
    \/ FindSchemaDefinition
    \/ ProcessRootObject
    \/ ProcessObject
    \/ ProcessInputObject
    \/ ProcessEnum
    \/ SkipDefinition
    \/ SecondSchemaDefinition
    \/ FinishNew

SpecNew == NewInit /\ [][NewNext]_vars

(***************************************************************************)
(* Properties of GraphQLSchema::new                                        *)
(***************************************************************************)
\* The directives held by a TypeOverrides map
TypeDirectivesIn(m) ==
    UNION { UNION { Range(m[t][f][1]) \cup Range(m[t][f][2]) : f \in DOMAIN m[t] } : t \in DOMAIN m }

\* The directives held by a NameOverrides map
NameDirectivesIn(m) == UNION { Range(m[t][1]) \cup Range(m[t][2]) : t \in DOMAIN m }

SchemaBlockCount(doc) == Cardinality({ i \in DOMAIN doc : doc[i].def = "SchemaDefinition" })

\* The declarations of the document with a given kind and name
Declared(doc, kinds, name) == { i \in DOMAIN doc : doc[i].def \in kinds /\ doc[i].name = name }

\* The root names in force: those of the first schema block, else the defaults
RootNamesOf(doc) ==
    IF SchemaBlockCount(doc) = 0 THEN SchemaDefinition_default
    ELSE SchemaDefinition_from(doc[CHOOSE i \in DOMAIN doc :
                                     /\ doc[i].def = "SchemaDefinition"
                                     /\ \A j \in 1..(i - 1) : doc[j].def # "SchemaDefinition"])

IsRootName(doc, name) ==
    name \in { RootNamesOf(doc).query, RootNamesOf(doc).mutation, RootNamesOf(doc).subscription }

\* A type override that the document can resolve: its type is an object or
\* input type, its field is declared there, and an argument segment names an
\* argument of an operation
TypeDirectiveResolves(doc, d) ==
    \E i \in Declared(doc, {"Object", "InputObject"}, d.type_name) :
        \E j \in DOMAIN doc[i].fields :
            /\ doc[i].fields[j].name = d.field_name
            /\ \/ d.arg_name = None
               \/ /\ doc[i].def = "Object"
                  /\ IsRootName(doc, d.type_name)
                  /\ \E a \in DOMAIN doc[i].fields[j].arguments :
                        doc[i].fields[j].arguments[a].name = Unwrap(d.arg_name)

\* The messages of an error that point into directive d
MessagesFor(error, d) == { i \in DOMAIN error : error[i].span.of = Some(d) }

\* The statement of C3 for the documents that satisfy docOk
UnknownTypeReported(docOk) ==
    (pc = "done" /\ docOk) =>
        \A d \in TypeDirectivesIn(in_tos) :
            /\ Declared(in_doc, {"Object", "InputObject"}, d.type_name) = {} =>
                  /\ ~Unwrap(result).ok
                  /\ \E i \in MessagesFor(Unwrap(result).error, d) :
                        /\ Unwrap(result).error[i].text = "No type or input named '{}'"
                        /\ Unwrap(result).error[i].args = <<d.type_name>>
            /\ TypeDirectiveResolves(in_doc, d) =>
                  (Unwrap(result).ok \/ MessagesFor(Unwrap(result).error, d) = {})

\* C3 as stated: a type override whose type name matches no object or input
\* type makes GraphQLSchema::new fail with 'No type or input named <type>',
\* whatever else is in the batch, and the valid directives get no error.
C3_UnknownTypeAlwaysReported == UnknownTypeReported(TRUE)

\* C3 (amended): the same, for a document with at most one schema block.
C3_UnknownTypeReported == UnknownTypeReported(SchemaBlockCount(in_doc) <= 1)

\* DoesNotExist.id is reported while Player.id of the same batch is applied
C3_Witness ==
    /\ pc = "done"
    /\ in_doc = DocMain
    /\ TypeDirectivesIn(in_tos) =
          { TypeOverride(N_DoesNotExist, N_id, None, "String"), TypeOverride(N_Player, N_id, None, "String") }
    /\ Unwrap(result).error = NoTypeError(TypeOverride(N_DoesNotExist, N_id, None, "String"))
    /\ structures[1].fields[1].field_type = FT_Overriden("String")

\* The operations compiled for the root type called name
RootOperations(name) ==
    (IF name = sd.query THEN UnwrapOrDefault(queries) ELSE <<>>)
    \o (IF name = sd.mutation /\ name # sd.query THEN UnwrapOrDefault(mutations) ELSE <<>>)
    \o (IF name = sd.subscription /\ name \notin {sd.query, sd.mutation}
        THEN UnwrapOrDefault(subscriptions) ELSE <<>>)

\* The places of the compiled model whose type is the target of type override d
TypeAppliedAt(d) ==
    LET ops == RootOperations(d.type_name)
        hit(ft) == LeafOf(ft) = FT_Overriden(d.type_ident)
    IN  { <<"operation", i, 0>> : i \in { i \in DOMAIN ops :
              d.arg_name = None /\ ops[i].name.orig = d.field_name /\ hit(ops[i].return_type) } }
        \cup UNION { { <<"argument", i, j>> : j \in { j \in DOMAIN ops[i].args :
                         /\ d.arg_name = Some(ops[i].args[j].name.orig)
                         /\ ops[i].name.orig = d.field_name
                         /\ hit(ops[i].args[j].field_type) } } : i \in DOMAIN ops }
        \cup UNION { { <<"field", i, j>> : j \in { j \in DOMAIN structures[i].fields :
                         /\ d.arg_name = None
                         /\ structures[i].name.orig = d.type_name
                         /\ structures[i].fields[j].name.orig = d.field_name
                         /\ hit(structures[i].fields[j].field_type) } } : i \in DOMAIN structures }

\* The places of the compiled model that carry the new name of name override d
NameAppliedAt(d) ==
    LET hit(name) == name.name_override = Some(d.new_name)
    IN  { <<"structure", i, 0>> : i \in { i \in DOMAIN structures :
              d.field_name = None /\ structures[i].name.orig = d.type_name /\ hit(structures[i].name) } }
        \cup { <<"enum", i, 0>> : i \in { i \in DOMAIN enums :
              d.field_name = None /\ enums[i].name.orig = d.type_name /\ hit(enums[i].name) } }
        \cup UNION { { <<"field", i, j>> : j \in { j \in DOMAIN structures[i].fields :
                         /\ d.field_name = Some(structures[i].fields[j].name.orig)
                         /\ structures[i].name.orig = d.type_name
                         /\ hit(structures[i].fields[j].name) } } : i \in DOMAIN structures }
        \cup UNION { { <<"variant", i, j>> : j \in { j \in DOMAIN enums[i].variants :
                         /\ d.field_name = Some(enums[i].variants[j].orig)
                         /\ enums[i].name.orig = d.type_name
                         /\ hit(enums[i].variants[j]) } } : i \in DOMAIN enums }

\* The segment of directive d a message points at, and the name it prints:
\* the message names the segment that was not found, or is the misuse message
\* on the argument segment
NamesUnmatched(msg, d) ==
    \/ /\ msg.span.part = "type_name"
       /\ msg.args = <<d.type_name>>
    \/ /\ msg.span.part = "field_name"
       /\ msg.args = <<IF "new_name" \in DOMAIN d THEN Unwrap(d.field_name) ELSE d.field_name, d.type_name>>
    \/ /\ msg.span.part = "arg_name"
       /\ \/ msg.args = <<Unwrap(d.arg_name), d.type_name, d.field_name>>
          \/ msg.text = "Using args overrides is only supported on operations"

\* The combined error GraphQLSchema::new returned, empty for Ok
ReturnedError == IF Unwrap(result).ok THEN <<>> ELSE Unwrap(result).error

\* C4: after a whole document with at most one schema block, every type and
\* name override has either been applied at exactly one place of the model
\* and got no error, or been applied nowhere and got exactly one message
\* naming what was not matched; the combined error has no other message.
C4_EveryDirectiveAppliedOrReported ==
    (pc = "done" /\ SchemaBlockCount(in_doc) <= 1) =>
        /\ \A d \in TypeDirectivesIn(in_tos) :
              LET applications == Cardinality(TypeAppliedAt(d))
                  messages == MessagesFor(ReturnedError, d)
              IN  \/ applications = 1 /\ messages = {}
                  \/ /\ applications = 0
                     /\ Cardinality(messages) = 1
                     /\ \A i \in messages : NamesUnmatched(ReturnedError[i], d)
        /\ \A d \in NameDirectivesIn(in_nos) :
              LET applications == Cardinality(NameAppliedAt(d))
                  messages == MessagesFor(ReturnedError, d)
              IN  \/ applications = 1 /\ messages = {}
                  \/ /\ applications = 0
                     /\ Cardinality(messages) = 1
                     /\ \A i \in messages : NamesUnmatched(ReturnedError[i], d)
        /\ \A i \in DOMAIN ReturnedError :
              \E d \in TypeDirectivesIn(in_tos) \cup NameDirectivesIn(in_nos) :
                  ReturnedError[i].span.of = Some(d)

\* Two unresolvable directives of different declarations, both reported
C4_Witness ==
    /\ pc = "done"
    /\ in_doc = DocMain
    /\ TypeDirectivesIn(in_tos) = { TypeOverride(N_Query, N_player, Some(N_bad), "String") }
    /\ NameDirectivesIn(in_nos) = { NameOverride(N_Team, Some(N_NOPE), N_renamed) }
    /\ Len(ReturnedError) = 2

\* The compiled type of field j of the declaration a structure came from
DeclaredFieldType(decl, j) ==
    FieldType_from(IF decl.def = "Object" THEN decl.fields[j].field_type ELSE decl.fields[j].value_type)

\* C5: for every structure compiled so far, an argument override of one of
\* its fields has produced exactly one 'Using args overrides is only
\* supported on operations' error and has left the field's type alone, and a
\* direct override of the same field is applied all the same.
C5_ArgsOverrideOnStructure ==
    \A s \in DOMAIN structures :
        \A i \in Declared(in_doc, {"Object", "InputObject"}, structures[s].name.orig) :
            \A j \in DOMAIN structures[s].fields :
                LET field == structures[s].fields[j]
                    here == { d \in TypeDirectivesIn(in_tos) :
                                d.type_name = structures[s].name.orig /\ d.field_name = field.name.orig }
                    direct == { d \in here : d.arg_name = None }
                    produced == Flatten(errors)
                IN  /\ \A d \in here \ direct :
                          /\ Cardinality(MessagesFor(produced, d)) = 1
                          /\ \A m \in MessagesFor(produced, d) : <<produced[m]>> = ArgsMisuseError(d)
                    /\ direct = {} => field.field_type = DeclaredFieldType(in_doc[i], j)
                    /\ \A d \in direct :
                          /\ field.field_type = FieldType_override_type(DeclaredFieldType(in_doc[i], j), d)
                          /\ MessagesFor(produced, d) = {}

\* Player.id.bad and Player.id of one batch: one error, and id is overridden
C5_Witness ==
    /\ TypeDirectivesIn(in_tos) =
          { TypeOverride(N_Player, N_id, Some(N_bad), "u32"), TypeOverride(N_Player, N_id, None, "String") }
    /\ \E s \in DOMAIN structures :
          /\ structures[s].name.orig = N_Player
          /\ structures[s].fields[1].field_type = FT_Overriden("String")
    /\ Flatten(errors) = ArgsMisuseError(TypeOverride(N_Player, N_id, Some(N_bad), "u32"))

\* The declarations the loop of GraphQLSchema::new visits, in its order,
\* before it meets a second schema block: the first block is gone and the
\* last declaration stands in its place
VisitedBeforeSecondBlock(doc) ==
    LET n == Len(doc)
        first == CHOOSE i \in DOMAIN doc :
                    doc[i].def = "SchemaDefinition" /\ \A j \in 1..(i - 1) : doc[j].def # "SchemaDefinition"
        order == [i \in 1..(n - 1) |-> IF i = first THEN doc[n] ELSE doc[i]]
        second == CHOOSE i \in DOMAIN order :
                    order[i].def = "SchemaDefinition" /\ \A j \in 1..(i - 1) : order[j].def # "SchemaDefinition"
    IN  { order[i] : i \in 1..(second - 1) }

FieldContext_to_tokens_NoRename(field) ==
    [ident |-> Name_to_var_ident(field.name),
     rename |-> None,
     default_skip |-> FieldType_is_optionnal(field.field_type),
     field_type |-> field.field_type]

\* impl ToTokens for FieldContext: the field with its serde options; rename
\* is given when the identifier, as Ident prints it, is not the schema name
FieldContext_to_tokens(field) ==
    LET name == Name_to_var_ident(field.name)
        orig_name == field.name.orig
    IN  [ident |-> name,
         rename |-> IF Ident_to_string(name) # orig_name THEN Some(orig_name) ELSE None,
         default_skip |-> FieldType_is_optionnal(field.field_type),
         field_type |-> field.field_type]

\* Faulty variant of impl ToTokens for Structure: the struct can only be decoded
Structure_to_tokens_DeserializeOnly(self) ==
    [derives |-> {"Debug", "Clone", "Deserialize"},
     ident |-> Name_to_type_ident(self.name),
     fields |-> SeqMap(FieldContext_to_tokens, self.fields)]

\* impl ToTokens for Structure
Structure_to_tokens(self) ==
    [derives |-> {"Debug", "Clone", "Serialize", "Deserialize"},
     ident |-> Name_to_type_ident(self.name),
     fields |-> SeqMap(FieldContext_to_tokens, self.fields)]

\* "' is an invalid value for enum ", the text after {} in error_message
InvalidValueText ==
    << "'", " ", "i", "s", " ", "a", "n", " ", "i", "n", "v", "a", "l", "i", "d", " ",
       "v", "a", "l", "u", "e", " ", "f", "o", "r", " ", "e", "n", "u", "m", " " >>

\* Faulty variant of impl ToTokens for Enum: the variants carry their
\* identifier as serde name
Enum_to_tokens_RenameIdent(self) ==
    LET enum_name == Name_to_type_ident(self.name)
        variants == [i \in DOMAIN self.variants |-> Name_to_type_ident(self.variants[i])]
        variant_orig_iter == [i \in DOMAIN self.variants |-> self.variants[i].orig]
    IN  [ident |-> enum_name,
         variants |-> [i \in DOMAIN variants |-> [ident |-> variants[i], rename |-> variants[i]]],
         COUNT |-> Len(self.variants),
         all |-> variants,
         fmt |-> [i \in DOMAIN variants |-> [variant |-> variants[i], text |-> variant_orig_iter[i]]],
         from_str |-> [i \in DOMAIN variants |-> [pattern |-> variant_orig_iter[i], variant |-> variants[i]]],
         error_message |-> [before |-> <<"'">>, after |-> InvalidValueText \o enum_name]]

\* impl ToTokens for Enum: the enum with a serde rename on every variant,
\* COUNT, all(), the arms of Display and FromStr, and error_message split at
\* its {} placeholder
Enum_to_tokens(self) ==
    LET enum_name == Name_to_type_ident(self.name)
        variants == [i \in DOMAIN self.variants |-> Name_to_type_ident(self.variants[i])]
        variant_orig_iter == [i \in DOMAIN self.variants |-> self.variants[i].orig]
    IN  [ident |-> enum_name,
         variants |-> [i \in DOMAIN variants |-> [ident |-> variants[i], rename |-> variant_orig_iter[i]]],
         COUNT |-> Len(self.variants),
         all |-> variants,
         fmt |-> [i \in DOMAIN variants |-> [variant |-> variants[i], text |-> variant_orig_iter[i]]],
         from_str |-> [i \in DOMAIN variants |-> [pattern |-> variant_orig_iter[i], variant |-> variants[i]]],
         error_message |-> [before |-> <<"'">>, after |-> InvalidValueText \o enum_name]]

\* GraphQLSchema::appsync_types_to_tokens: the enums, then the structures
GraphQLSchema_appsync_types_to_tokens(self) ==
    [enums |-> SeqMap(Enum_to_tokens, self.enums),
     structs |-> SeqMap(Structure_to_tokens, self.structures)]

(***************************************************************************)
(* The generated types at run time: what the serde derives and the         *)
(* generated impls do with the attributes and arms emitted above.  JSON    *)
(* values are serde_json values; a JSON object is a function on its keys.  *)
(***************************************************************************)
JNull == [j |-> "Null"]

JString(chars) == [j |-> "String", s |-> chars]

JNumber(n) == [j |-> "Number", n |-> n]

JArray(items) == [j |-> "Array", items |-> items]

JObject(members) == [j |-> "Object", members |-> members]

\* Values of the generated Rust types
V_String(chars) == [t |-> "String", s |-> chars]

V_i32(n) == [t |-> "i32", n |-> n]

V_Variant(enum, variant) == [t |-> "Variant", enum |-> enum, variant |-> variant]

V_Vec(items) == [t |-> "Vec", items |-> items]

\* The strings and numbers the values are built from
WireStrings == { <<"x">>, <<"y">> }

WireNumbers == { 7 }

MaxVecLen == 1

RECURSIVE LeafType(_)
\* The type inside the Option<> and Vec<> layers
LeafType(ty) == IF ty.k \in {"List", "Optionnal"} THEN LeafType(ty.of) ELSE ty

\* The path a leaf type is printed as (impl ToTokens for FieldType)
LeafPath(leaf) ==
    IF leaf.k = "Custom" THEN StringOf(Name_to_type_ident(leaf.name))
    ELSE IF leaf.k = "Overriden" THEN leaf.ty
    ELSE leaf.scalar

\* The generated enums a path names
EnumsNamed(c, path) == { k \in DOMAIN c.enums : StringOf(c.enums[k].ident) = path }

\* Leaf types whose values are modelled: String, ID (a string on the wire),
\* i32, a type override to String or Option<String>, and the generated enums
LeafResolves(c, leaf) ==
    IF leaf.k = "Scalar" THEN leaf.scalar \in {"String", "ID", "Int"}
    ELSE LeafPath(leaf) \in {"String", "Option<String>"} \/ Cardinality(EnumsNamed(c, LeafPath(leaf))) = 1

\* The Rust type of the field is an Option: the Option<> FieldContext emits
\* for Optionnal, or an Option the user gave as type override
RustTypeIsOption(ty) == ty.k = "Optionnal" \/ (ty.k = "Overriden" /\ ty.ty = "Option<String>")

Distinct(seq) == \A i, j \in DOMAIN seq : seq[i] = seq[j] => i = j

\* rustc accepts the generated types: no two items, variants or fields share
\* an identifier and every field type names a type
Compiles(c) ==
    /\ Distinct([k \in DOMAIN c.enums |-> c.enums[k].ident] \o [k \in DOMAIN c.structs |-> c.structs[k].ident])
    /\ \A k \in DOMAIN c.enums : Distinct([i \in DOMAIN c.enums[k].variants |-> c.enums[k].variants[i].ident])
    /\ \A k \in DOMAIN c.structs :
          /\ Distinct([i \in DOMAIN c.structs[k].fields |-> c.structs[k].fields[i].ident])
          /\ \A i \in DOMAIN c.structs[k].fields : LeafResolves(c, LeafType(c.structs[k].fields[i].field_type))

RECURSIVE ValuesOf(_, _)
\* The values of a field type, with vectors of at most MaxVecLen items
ValuesOf(c, ty) ==
    IF ty.k = "Optionnal" THEN {None} \cup { Some(v) : v \in ValuesOf(c, ty.of) }
    ELSE IF ty.k = "List"
         THEN { V_Vec(items) : items \in UNION { [1..n -> ValuesOf(c, ty.of)] : n \in 0..MaxVecLen } }
         ELSE IF ty.k = "Scalar" /\ ty.scalar = "Int" THEN { V_i32(n) : n \in WireNumbers }
         ELSE IF ty.k = "Scalar" \/ LeafPath(ty) = "String" THEN { V_String(x) : x \in WireStrings }
         ELSE IF LeafPath(ty) = "Option<String>" THEN {None} \cup { Some(V_String(x)) : x \in WireStrings }
         ELSE LET en == c.enums[CHOOSE k \in EnumsNamed(c, LeafPath(ty)) : TRUE]
              IN  { V_Variant(en.ident, en.variants[i].ident) : i \in DOMAIN en.variants }

RECURSIVE StructValues(_, _, _)
\* The values of a generated struct: one value per field from field i on
StructValues(c, fields, i) ==
    IF i > Len(fields) THEN {<<>>}
    ELSE { <<v>> \o rest : v \in ValuesOf(c, fields[i].field_type), rest \in StructValues(c, fields, i + 1) }

\* The name serde gives a field: its rename, or the identifier without r#
SerdeFieldName(f) == IF IsSome(f.rename) THEN Unwrap(f.rename) ELSE f.ident.sym

First(S) == CHOOSE i \in S : \A j \in S : i <= j

\* derive(Serialize) on the generated enum
Enum_serialize(en, variant) ==
    JString(en.variants[First({ i \in DOMAIN en.variants : en.variants[i].ident = variant })].rename)

UnknownVariantText == << "u", "n", "k", "n", "o", "w", "n", " ", "v", "a", "r", "i", "a", "n", "t", " ", "'" >>

MissingFieldText == << "m", "i", "s", "s", "i", "n", "g", " ", "f", "i", "e", "l", "d", " ", "'" >>

InvalidTypeText == << "i", "n", "v", "a", "l", "i", "d", " ", "t", "y", "p", "e" >>

\* derive(Deserialize) on the generated enum; serde's message goes on with
\* the list of expected names, left out here
Enum_deserialize(en, json) ==
    IF json.j # "String" THEN [ok |-> FALSE, error |-> [message |-> InvalidTypeText]]
    ELSE LET hits == { i \in DOMAIN en.variants : en.variants[i].rename = json.s }
         IN  IF hits # {}
             THEN [ok |-> TRUE, value |-> V_Variant(en.ident, en.variants[First(hits)].ident)]
             ELSE [ok |-> FALSE, error |-> [message |-> UnknownVariantText \o json.s \o <<"'">>]]

\* Faulty variant of the generated from_str: the arms match the identifiers
Enum_from_str_MatchesIdent(en, str) ==
    LET hits == { i \in DOMAIN en.from_str : en.from_str[i].variant = str }
    IN  IF hits # {}
        THEN [ok |-> TRUE, value |-> V_Variant(en.ident, en.from_str[First(hits)].variant)]
        ELSE [ok |-> FALSE,
              error |-> [error_type |-> "InvalidStr",
                         error_message |-> en.error_message.before \o str \o en.error_message.after]]

\* The generated from_str: the first arm whose pattern is the string, else
\* AppsyncError::new("InvalidStr", format!(error_message, s))
Enum_from_str(en, str) ==
    LET hits == { i \in DOMAIN en.from_str : en.from_str[i].pattern = str }
    IN  IF hits # {}
        THEN [ok |-> TRUE, value |-> V_Variant(en.ident, en.from_str[First(hits)].variant)]
        ELSE [ok |-> FALSE,
              error |-> [error_type |-> "InvalidStr",
                         error_message |-> en.error_message.before \o str \o en.error_message.after]]

\* The generated Display::fmt
Enum_fmt(en, variant) == en.fmt[First({ i \in DOMAIN en.fmt : en.fmt[i].variant = variant })].text

RECURSIVE Value_serialize(_, _, _)
\* Serialize for a field value of type ty
Value_serialize(c, ty, v) ==
    IF ty.k = "Optionnal" THEN IF v = None THEN JNull ELSE Value_serialize(c, ty.of, Unwrap(v))
    ELSE IF ty.k = "List" THEN JArray([i \in DOMAIN v.items |-> Value_serialize(c, ty.of, v.items[i])])
    ELSE IF ty.k = "Overriden" /\ ty.ty = "Option<String>"
         THEN IF v = None THEN JNull ELSE JString(Unwrap(v).s)
    ELSE IF v.t = "String" THEN JString(v.s)
    ELSE IF v.t = "i32" THEN JNumber(v.n)
    ELSE Enum_serialize(c.enums[CHOOSE k \in EnumsNamed(c, LeafPath(ty)) : TRUE], v.variant)

RECURSIVE Value_deserialize(_, _, _)
\* Deserialize for a field value of type ty
Value_deserialize(c, ty, json) ==
    IF ty.k = "Optionnal"
    THEN IF json.j = "Null" THEN [ok |-> TRUE, value |-> None]
         ELSE LET r == Value_deserialize(c, ty.of, json)
              IN  IF r.ok THEN [ok |-> TRUE, value |-> Some(r.value)] ELSE r
    ELSE IF ty.k = "List"
         THEN IF json.j # "Array" THEN [ok |-> FALSE, error |-> [message |-> InvalidTypeText]]
              ELSE LET rs == [i \in DOMAIN json.items |-> Value_deserialize(c, ty.of, json.items[i])]
                       bad == { i \in DOMAIN rs : ~rs[i].ok }
                   IN  IF bad # {} THEN rs[First(bad)]
                       ELSE [ok |-> TRUE, value |-> V_Vec([i \in DOMAIN rs |-> rs[i].value])]
         ELSE IF ty.k = "Scalar" /\ ty.scalar = "Int"
              THEN IF json.j = "Number" THEN [ok |-> TRUE, value |-> V_i32(json.n)]
                   ELSE [ok |-> FALSE, error |-> [message |-> InvalidTypeText]]
              ELSE IF ty.k = "Scalar" \/ LeafPath(ty) = "String"
                   THEN IF json.j = "String" THEN [ok |-> TRUE, value |-> V_String(json.s)]
                        ELSE [ok |-> FALSE, error |-> [message |-> InvalidTypeText]]
              ELSE IF LeafPath(ty) = "Option<String>"
                   THEN IF json.j = "Null" THEN [ok |-> TRUE, value |-> None]
                        ELSE IF json.j = "String" THEN [ok |-> TRUE, value |-> Some(V_String(json.s))]
                        ELSE [ok |-> FALSE, error |-> [message |-> InvalidTypeText]]
                   ELSE Enum_deserialize(c.enums[CHOOSE k \in EnumsNamed(c, LeafPath(ty)) : TRUE], json)

\* derive(Serialize) on the generated struct: every field under its serde
\* name, a None left out when the field has skip_serializing_if
Struct_serialize(c, st, value) ==
    LET kept == { i \in DOMAIN st.fields : ~(st.fields[i].default_skip /\ value[i] = None) }
    IN  JObject([key \in { SerdeFieldName(st.fields[i]) : i \in kept } |->
                    LET i == First({ x \in kept : SerdeFieldName(st.fields[x]) = key })
                    IN  Value_serialize(c, st.fields[i].field_type, value[i])])

\* derive(Deserialize) on the generated struct: every field is read from its
\* serde name; a missing one is None with default, is None as well when the
\* field's type is an Option (serde reads a missing field as an absent
\* value), and is an error otherwise; keys that name no field are ignored.
\* A failure returns one of the errors of the fields.
Struct_deserialize(c, st, json) ==
    LET Read(i) ==
            LET f == st.fields[i]
                key == SerdeFieldName(f)
            IN  IF key \in DOMAIN json.members THEN Value_deserialize(c, f.field_type, json.members[key])
                ELSE IF f.default_skip \/ RustTypeIsOption(f.field_type) THEN [ok |-> TRUE, value |-> None]
                ELSE [ok |-> FALSE, error |-> [message |-> MissingFieldText \o key \o <<"'">>]]
        bad == { i \in DOMAIN st.fields : ~Read(i).ok }
    IN  IF bad = {} THEN [ok |-> TRUE, value |-> [i \in DOMAIN st.fields |-> Read(i).value]]
        ELSE [ok |-> FALSE, errors |-> { Read(i).error : i \in bad }]

(***************************************************************************)
(* The macro emits the types of a compiled schema, and the program that    *)
(* holds them serializes, deserializes and parses values                   *)
(***************************************************************************)
RuntimeInit == NewStart(RuntimeDocuments, RuntimeDirectivePool)

\* appsync_types_to_tokens on the schema GraphQLSchema::new returned
AppsyncTypesToTokens ==
    /\ pc = "done"
    /\ Unwrap(result).ok
    /\ code' = Some(GraphQLSchema_appsync_types_to_tokens(Unwrap(result).schema))
    /\ pc' = "emitted"
    /\ UNCHANGED <<macroVars, in_doc, in_tos, in_nos, defs, sd, tos, nos, errors, queries, mutations, subscriptions,
                   structures, enums, result, wop, typeVars, reqVars, nameVars>>

\* rustc accepted the generated types
Running == pc = "emitted" /\ Compiles(Unwrap(code))

\* ... and the program has run nothing yet
Fresh == Running /\ wop = None

\* serde_json::to_value(&value) for a value of a generated struct
SerializeStruct ==
    /\ Fresh
    /\ \E k \in DOMAIN Unwrap(code).structs :
          LET st == Unwrap(code).structs[k]
          IN  \E value \in StructValues(Unwrap(code), st.fields, 1) :
                 /\ "Serialize" \in st.derives
                 /\ wop' = Some([op |-> "to_value", item |-> k, value |-> value,
                              json |-> Struct_serialize(Unwrap(code), st, value)])
    /\ UNCHANGED <<macroVars, newVars, code, typeVars, reqVars, nameVars>>

\* What a sender does to the object before it comes back: nothing, or the
\* member of one field's schema name is dropped, or made null, or moved to
\* the spelling of the field's Rust identifier
Edits(st) ==
    {[e |-> "none", field |-> 0]} \cup
    { [e |-> x, field |-> i] : x \in {"drop", "null", "respell"}, i \in DOMAIN st.fields }

Edited(json, orig, sym, e) ==
    LET m == json.members
    IN  IF e = "null" THEN JObject([key \in DOMAIN m \cup {orig} |-> IF key = orig THEN JNull ELSE m[key]])
        ELSE IF e = "none" \/ orig \notin DOMAIN m THEN json
        ELSE IF e = "drop" THEN JObject([key \in DOMAIN m \ {orig} |-> m[key]])
        ELSE JObject([key \in (DOMAIN m \ {orig}) \cup {sym} |-> IF key = sym THEN m[orig] ELSE m[key]])

\* serde_json::from_value(json) into the generated struct
DeserializeStruct ==
    /\ Running
    /\ IsSome(wop)
    /\ Unwrap(wop).op = "to_value"
    /\ LET w == Unwrap(wop)
           st == Unwrap(code).structs[w.item]
           src == Unwrap(result).schema.structures[w.item]
       IN  \E e \in Edits(st) :
              LET json == IF e.e = "none" THEN w.json
                          ELSE Edited(w.json, src.fields[e.field].name.orig, st.fields[e.field].ident.sym, e.e)
              IN  /\ "Deserialize" \in st.derives
                  /\ wop' = Some([op |-> "from_value", item |-> w.item, value |-> w.value, sent |-> w.json,
                               edit |-> e, json |-> json,
                               out |-> Struct_deserialize(Unwrap(code), st, json)])
    /\ UNCHANGED <<macroVars, newVars, code, typeVars, reqVars, nameVars>>

\* The strings an enum is asked to parse: the names and identifiers of its
\* variants in their own and in upper case, and a name it does not have
EnumStrings(en) ==
    UNION { { en.variants[i].rename, en.variants[i].ident, ToUppercase(en.variants[i].ident) } :
            i \in DOMAIN en.variants } \cup {N_NOPE}

\* s.parse::<Enum>()
EnumFromStr ==
    /\ Fresh
    /\ \E k \in DOMAIN Unwrap(code).enums :
          \E str \in EnumStrings(Unwrap(code).enums[k]) :
             wop' = Some([op |-> "from_str", item |-> k, input |-> str,
                          out |-> Enum_from_str(Unwrap(code).enums[k], str)])
    /\ UNCHANGED <<macroVars, newVars, code, typeVars, reqVars, nameVars>>

\* serde_json::from_str of a JSON string into the generated enum
EnumDeserialize ==
    /\ Fresh
    /\ \E k \in DOMAIN Unwrap(code).enums :
          \E str \in EnumStrings(Unwrap(code).enums[k]) :
             wop' = Some([op |-> "from_json", item |-> k, input |-> str,
                          out |-> Enum_deserialize(Unwrap(code).enums[k], JString(str))])
    /\ UNCHANGED <<macroVars, newVars, code, typeVars, reqVars, nameVars>>

\* Enum::all() and Enum::COUNT
EnumAll ==
    /\ Fresh
    /\ \E k \in DOMAIN Unwrap(code).enums :
          wop' = Some([op |-> "all", item |-> k, out |-> Unwrap(code).enums[k].all,
                       count |-> Unwrap(code).enums[k].COUNT])
    /\ UNCHANGED <<macroVars, newVars, code, typeVars, reqVars, nameVars>>

\* variant.to_string() and serde_json::to_value(variant)
EnumToString ==
    /\ Fresh
    /\ \E k \in DOMAIN Unwrap(code).enums :
          \E i \in DOMAIN Unwrap(code).enums[k].variants :
             LET en == Unwrap(code).enums[k]
             IN  wop' = Some([op |-> "to_string", item |-> k, variant |-> en.variants[i].ident,
                              out |-> Enum_fmt(en, en.variants[i].ident),
                              json |-> Enum_serialize(en, en.variants[i].ident)])
    /\ UNCHANGED <<macroVars, newVars, code, typeVars, reqVars, nameVars>>

RuntimeNext ==
    \/ FindSchemaDefinition
    \/ ProcessRootObject
    \/ ProcessObject
    \/ ProcessInputObject
    \/ ProcessEnum
    \/ SkipDefinition
    \/ SecondSchemaDefinition
    \/ FinishNew
    \/ AppsyncTypesToTokens
    \/ SerializeStruct
    \/ DeserializeStruct
    \/ EnumFromStr
    \/ EnumDeserialize
    \/ EnumAll
    \/ EnumToString

SpecRuntime == RuntimeInit /\ [][RuntimeNext]_vars

(***************************************************************************)
(* Properties of the generated types                                       *)
(***************************************************************************)
\* The enum declaration of the document a compiled enum comes from
DeclaredEnum(en) ==
    in_doc[CHOOSE i \in DOMAIN in_doc : in_doc[i].def = "Enum" /\ in_doc[i].name = en.name.orig]

\* needle occurs in hay
Contains(hay, needle) ==
    \E i \in 0..(Len(hay) - Len(needle)) : SubSeq(hay, i + 1, i + Len(needle)) = needle

\* C7: a structure field renamed with name_override is serialized under its
\* original schema name and not under the new identifier; an object that
\* carries the value of a required renamed field under the new identifier
\* fails to decode for want of the original key; and deserializing what was
\* serialized gives back the value, for every value of every structure.
C7_RenamedFieldKeepsWireKey ==
    (IsSome(wop) /\ Unwrap(wop).op \in {"to_value", "from_value"}) =>
        LET w == Unwrap(wop)
            src == Unwrap(result).schema.structures[w.item]
            renamed == { i \in DOMAIN src.fields : IsSome(src.fields[i].name.name_override) }
            Orig(i) == src.fields[i].name.orig
            New(i) == Unwrap(src.fields[i].name.name_override)
            origs == { src.fields[i].name.orig : i \in DOMAIN src.fields }
        IN  /\ w.op = "to_value" =>
                  \A i \in renamed :
                     /\ \/ src.fields[i].field_type.k = "Optionnal" /\ w.value[i] = None
                        \/ /\ Orig(i) \in DOMAIN w.json.members
                           /\ w.json.members[Orig(i)] =
                                 Value_serialize(Unwrap(code), src.fields[i].field_type, w.value[i])
                     /\ New(i) \notin origs => New(i) \notin DOMAIN w.json.members
            /\ (w.op = "from_value" /\ w.edit.e = "none") => w.out = [ok |-> TRUE, value |-> w.value]
            /\ ( /\ w.op = "from_value"
                 /\ w.edit.e = "respell"
                 /\ w.edit.field \in renamed
                 /\ ~RustTypeIsOption(src.fields[w.edit.field].field_type)
                 /\ New(w.edit.field) # Orig(w.edit.field) )
               => /\ ~w.out.ok
                  /\ [message |-> MissingFieldText \o Orig(w.edit.field) \o <<"'">>] \in w.out.errors

\* Player.name is renamed email, and an object with the key email in place
\* of name has been refused
C7_Witness ==
    /\ IsSome(wop)
    /\ Unwrap(wop).op = "from_value"
    /\ NameOverride(N_Player, Some(N_name), N_email) \in NameDirectivesIn(in_nos)
    /\ Unwrap(wop).edit.e = "respell"
    /\ N_email \in DOMAIN Unwrap(wop).json.members
    /\ N_name \notin DOMAIN Unwrap(wop).json.members
    /\ ~Unwrap(wop).out.ok

\* The wire names of the generated fields and variants are the ones Expected
\* gives for their Name
WireNamesAre(Expected(_)) ==
    pc = "emitted" =>
        LET schema == Unwrap(result).schema
            c == Unwrap(code)
        IN  /\ \A k \in DOMAIN c.structs : \A i \in DOMAIN c.structs[k].fields :
                  SerdeFieldName(c.structs[k].fields[i]) = Expected(schema.structures[k].fields[i].name)
            /\ \A k \in DOMAIN c.enums : \A i \in DOMAIN c.enums[k].variants :
                  /\ c.enums[k].variants[i].rename = Expected(schema.enums[k].variants[i])
                  /\ Enum_fmt(c.enums[k], c.enums[k].variants[i].ident) = Expected(schema.enums[k].variants[i])

OverrideOrOrig(name) == IF IsSome(name.name_override) THEN Unwrap(name.name_override) ELSE name.orig

OrigOf(name) == name.orig

\* C8 as stated: every emitted field and variant serializes under its
\* original name when no name override applies to it and under the override
\* string when one was applied.
C8_WireNameFollowsOverride == WireNamesAre(OverrideOrOrig)

\* C8 (amended): every emitted field and variant serializes under its
\* original schema name, whether or not a name override was applied to it;
\* neither the override nor keyword escaping nor re-casing of the identifier
\* changes the wire name.
C8_WireNameIsOrig == WireNamesAre(OrigOf)

\* WeirdFieldNames with crate renamed no_crate, await escaped to r#await and
\* myField re-cased to my_field
C8_Witness ==
    /\ pc = "emitted"
    /\ \E k \in DOMAIN Unwrap(code).structs :
          LET fields == Unwrap(code).structs[k].fields
          IN  /\ Len(fields) = 3
              /\ fields[1].ident = Ident_new(N_no_crate)
              /\ fields[2].ident = Ident_new_raw(N_await)
              /\ fields[3].ident = Ident_new(<<"m", "y", "_", "f", "i", "e", "l", "d">>)
              /\ [i \in 1..3 |-> SerdeFieldName(fields[i])] = <<N_crate, N_await, N_myField>>

\* C9: from_str and deserialization of a generated enum accept exactly the
\* original schema names of the declared variants, each giving the variant
\* declared under that name, renamed or not (the spelling of a new
\* identifier is refused); every other string fails with an error whose
\* message contains the string.
C9_EnumAcceptsOriginalNames ==
    (IsSome(wop) /\ Unwrap(wop).op \in {"from_str", "from_json"}) =>
        LET w == Unwrap(wop)
            en == Unwrap(code).enums[w.item]
            declared == DeclaredEnum(Unwrap(result).schema.enums[w.item]).values
            message == IF w.op = "from_str" THEN w.out.error.error_message ELSE w.out.error.message
        IN  /\ w.out.ok <=> \E i \in DOMAIN declared : declared[i].name = w.input
            /\ w.out.ok => \E i \in DOMAIN declared :
                              /\ declared[i].name = w.input
                              /\ w.out.value = V_Variant(en.ident, en.variants[i].ident)
            /\ ~w.out.ok => Contains(message, w.input)

\* PYTHON is renamed Snake, and "Snake" has been refused by from_str
C9_Witness ==
    /\ IsSome(wop)
    /\ Unwrap(wop).op = "from_str"
    /\ NameOverride(N_Team, Some(N_PYTHON), N_Snake) \in NameDirectivesIn(in_nos)
    /\ Unwrap(wop).input = N_Snake
    /\ ~Unwrap(wop).out.ok

\* C10: COUNT is the number of variants the schema declares and all() lists
\* every variant once, in declaration order, also when variants or the enum
\* are renamed.
C10_CountAndAll ==
    (IsSome(wop) /\ Unwrap(wop).op = "all") =>
        LET w == Unwrap(wop)
            en == Unwrap(code).enums[w.item]
            declared == DeclaredEnum(Unwrap(result).schema.enums[w.item]).values
        IN  /\ w.count = Len(declared)
            /\ Len(w.out) = Len(declared)
            /\ Distinct(w.out)
            /\ \A i \in DOMAIN declared :
                  /\ i \in DOMAIN w.out
                  /\ Enum_serialize(en, w.out[i]) = JString(declared[i].name)

\* Team is renamed NewTeam, and all() of NewTeam has been called
C10_Witness ==
    /\ IsSome(wop)
    /\ Unwrap(wop).op = "all"
    /\ NameOverride(N_Team, None, N_NewTeam) \in NameDirectivesIn(in_nos)
    /\ Unwrap(code).enums[Unwrap(wop).item].ident = N_NewTeam
    /\ Unwrap(wop).out = <<<<"R", "u", "s", "t">>, <<"P", "y", "t", "h", "o", "n">>>>

\* What C11 says of a field that is Optional at the top level: an absent
\* value leaves no key in the serialized object, and an object in which the
\* key is missing or null decodes, with the absent value for that field
OptionalFieldOmitted ==
    (IsSome(wop) /\ Unwrap(wop).op \in {"to_value", "from_value"}) =>
        LET w == Unwrap(wop)
            src == Unwrap(result).schema.structures[w.item]
            optional == { i \in DOMAIN src.fields : src.fields[i].field_type.k = "Optionnal" }
        IN  /\ w.op = "to_value" =>
                  \A i \in optional : w.value[i] = None => src.fields[i].name.orig \notin DOMAIN w.json.members
            /\ (w.op = "from_value" /\ w.edit.e \in {"drop", "null"} /\ w.edit.field \in optional) =>
                  /\ w.out.ok
                  /\ w.out.value = [w.value EXCEPT ![w.edit.field] = None]

\* The decoding of an object that lacks the key of a field that is not
\* Optional at the top level fails, except for the fields in exempt
MissingKeyFails(Exempt(_)) ==
    (IsSome(wop) /\ Unwrap(wop).op = "from_value") =>
        LET w == Unwrap(wop)
            src == Unwrap(result).schema.structures[w.item]
        IN  ( /\ w.edit.e = "drop"
              /\ src.fields[w.edit.field].field_type.k # "Optionnal"
              /\ ~Exempt(src.fields[w.edit.field].field_type) )
            => /\ ~w.out.ok
               /\ [message |-> MissingFieldText \o src.fields[w.edit.field].name.orig \o <<"'">>] \in w.out.errors

NoType(ty) == FALSE

OverridenToOption(ty) == ty.k = "Overriden" /\ ty.ty = "Option<String>"

\* C11 as stated: an absent value of a field that is Optional at the top
\* level (also after a type override of its leaf) leaves no key in the
\* serialized object, a missing or null key decodes to the absent value, and
\* a missing key of any field that is not Optional at the top level makes
\* decoding fail.
C11_OptionalOmittedRequiredFails == OptionalFieldOmitted /\ MissingKeyFails(NoType)

\* C11 (amended): as above, but a missing key of a field that is not
\* Optional at the top level makes decoding fail only when the field's type
\* was not overridden to an Option type; with such an override the missing
\* key decodes to None.
C11_OptionalOmittedNonOptionFails ==
    /\ OptionalFieldOmitted
    /\ MissingKeyFails(OverridenToOption)
    /\ (IsSome(wop) /\ Unwrap(wop).op = "from_value" /\ Unwrap(wop).edit.e = "drop") =>
          LET w == Unwrap(wop)
              src == Unwrap(result).schema.structures[w.item]
          IN  OverridenToOption(src.fields[w.edit.field].field_type) =>
                 w.out = [ok |-> TRUE, value |-> [w.value EXCEPT ![w.edit.field] = None]]

\* Player.team, overridden to String and still Optional, held a value, came
\* back null and was decoded as absent
C11_Witness ==
    /\ IsSome(wop)
    /\ Unwrap(wop).op = "from_value"
    /\ TypeOverride(N_Player, N_team, None, "String") \in TypeDirectivesIn(in_tos)
    /\ Unwrap(wop).edit = [e |-> "null", field |-> 3]
    /\ Unwrap(result).schema.structures[Unwrap(wop).item].name.orig = N_Player
    /\ Unwrap(wop).value[3] # None
    /\ Unwrap(wop).out.ok
    /\ Unwrap(wop).out.value[3] = None

(***************************************************************************)
(* The operations of a schema: the Operation enum, the default handlers,   *)
(* the argument extractors and the match arms of Operation::execute        *)
(***************************************************************************)
N_deletePlayer == << "d", "e", "l", "e", "t", "e", "P", "l", "a", "y", "e", "r" >>

N_onDelete == << "o", "n", "D", "e", "l", "e", "t", "e" >>

\* A schema whose operations return scalars and enums, with required and
\* optional arguments
G_DispatchQuery ==
    GObject(N_Query,
            << GField(N_player, <<GInputValue(N_id, T_Req(S_ID)), GInputValue(N_team, T_Named(N_Team))>>,
                      T_Named(N_Team)),
               GField(N_players, <<>>, GQL_NonNullType(GQL_ListType(T_Req(S_String)))) >>)

G_DispatchMutation ==
    GObject(N_Mutation,
            << GField(N_createPlayer, <<GInputValue(N_name, T_Req(S_String))>>, T_Req(S_String)),
               GField(N_deletePlayer, <<GInputValue(N_id, T_Req(S_ID))>>, T_Named(S_String)) >>)

G_DispatchSubscription ==
    GObject(N_Subscription,
            << GField(N_onCreate, <<GInputValue(N_name, T_Named(S_String))>>, T_Named(S_String)),
               GField(N_onDelete, <<>>, T_Named(S_String)) >>)

DocDispatch ==
    << G_DispatchQuery, G_Player, GOther("Scalar", N_DateTime), G_Team, G_PlayerInput,
       G_DispatchMutation, G_DispatchSubscription >>

DispatchDocuments == {DocDispatch, DocTwoSchemasLast}

DispatchDirectivePool ==
    { TypeOverride(N_Query, N_player, Some(N_id), "String"),
      NameOverride(N_Team, Some(N_PYTHON), N_Snake) }

OperationKinds == {"Query", "Mutation", "Subscription"}

\* impl Display for OperationKind
OperationKind_fmt(kind) ==
    IF kind = "Query" THEN << "Q", "u", "e", "r", "y" >>
    ELSE IF kind = "Mutation" THEN << "M", "u", "t", "a", "t", "i", "o", "n" >>
    ELSE << "S", "u", "b", "s", "c", "r", "i", "p", "t", "i", "o", "n" >>

\* OperationKind::fct_prefix
OperationKind_fct_prefix(kind) ==
    IF kind = "Query" THEN << "q", "u", "e", "r", "y" >>
    ELSE IF kind = "Mutation" THEN << "m", "u", "t", "a", "t", "i", "o", "n" >>
    ELSE << "s", "u", "b", "s", "c", "r", "i", "p", "t", "i", "o", "n" >>

\* OperationKind::operation_enum_name
OperationKind_operation_enum_name(kind) ==
    IF kind = "Query" THEN "QueryField"
    ELSE IF kind = "Mutation" THEN "MutationField"
    ELSE "SubscriptionField"

\* Name::to_prefixed_fct_ident
Name_to_prefixed_fct_ident(name, prefix) == prefix \o <<"_">> \o Name_to_case(name, "Snake")

\* AppsyncError::new
AppsyncError_new(error_type, error_message) ==
    [error_type |-> error_type, error_message |-> error_message]

\* Operation::variant
Operation_variant(self) == Name_to_type_ident(self.name)

IsUnimplementedText == << "'", " ", "i", "s", " ", "u", "n", "i", "m", "p", "l", "e", "m", "e", "n", "t", "e", "d" >>

\* Faulty variant of default_op: the message names the operation in snake
\* case and a subscription is unimplemented too
Operation_default_op_SnakeName(self, kind) ==
    [fct_name |-> Name_to_prefixed_fct_ident(self.name, OperationKind_fct_prefix(kind)),
     return_type |-> IF kind = "Subscription" THEN None ELSE Some(self.return_type),
     body |-> [ok |-> FALSE,
               error |-> AppsyncError_new(<< "U", "n", "i", "m", "p", "l", "e", "m", "e", "n", "t", "e", "d" >>,
                                          OperationKind_fmt(kind) \o <<" ", "'">>
                                            \o Name_to_case(self.name, "Snake") \o IsUnimplementedText)]]

\* Operation::default_op: the method of the DefaultOperations trait, which
\* ignores its event; body is what it returns
Operation_default_op(self, kind) ==
    [fct_name |-> Name_to_prefixed_fct_ident(self.name, OperationKind_fct_prefix(kind)),
     return_type |-> IF kind = "Subscription" THEN None ELSE Some(self.return_type),
     body |-> IF kind = "Subscription"
              THEN [ok |-> TRUE, value |-> None]
              ELSE [ok |-> FALSE,
                    error |-> AppsyncError_new(<< "U", "n", "i", "m", "p", "l", "e", "m", "e", "n", "t", "e", "d" >>,
                                               OperationKind_fmt(kind) \o <<" ", "'">> \o self.name.orig
                                                 \o IsUnimplementedText)]]

\* Operation::execute_match_arm
Operation_execute_match_arm(self, kind) ==
    [operation_enum_name |-> OperationKind_operation_enum_name(kind),
     variant |-> Name_to_type_ident(self.name),
     fct_name |-> Name_to_prefixed_fct_ident(self.name, OperationKind_fct_prefix(kind))]

\* Operation::argument_extractor: operation_arguments reads one argument
\* per parameter, in the order of the declaration
Operation_argument_extractor(self) ==
    [params_types |-> [i \in DOMAIN self.args |-> self.args[i].field_type],
     param_strs |-> [i \in DOMAIN self.args |-> self.args[i].name.orig]]

\* The Rust types of a signature: a path, Vec<T>, Option<T>, Result<T, E>, &T
RT_Path(path) == [rt |-> "Path", path |-> path]

RT_Vec(inner) == [rt |-> "Vec", of |-> inner]

RT_Option(inner) == [rt |-> "Option", of |-> inner]

RT_Result(value, error) == [rt |-> "Result", of |-> value, error |-> error]

RT_Ref(inner) == [rt |-> "Ref", of |-> inner]

\* &::lambda_appsync::AppsyncEvent<Operation>
RT_AppsyncEvent == RT_Ref(RT_Path("AppsyncEvent<Operation>"))

\* ::lambda_appsync::AppsyncError
RT_AppsyncError == RT_Path("AppsyncError")

\* ::lambda_appsync::subscription_filters::FilterGroup
RT_FilterGroup == RT_Path("FilterGroup")

\* impl ToTokens for Scalar: the Rust type of a GraphQL scalar
Scalar_to_tokens(scalar) ==
    CASE scalar = "String" -> RT_Path("String")
      [] scalar = "ID" -> RT_Path("ID")
      [] scalar = "Int" -> RT_Path("i32")
      [] scalar = "Float" -> RT_Path("f64")
      [] scalar = "Boolean" -> RT_Path("bool")
      [] scalar = "AWSJSON" -> RT_Path("serde_json::Value")
      [] scalar = "AWSURL" -> RT_Path("AWSUrl")
      [] scalar = "AWSIPAddress" -> RT_Path("IpAddr")
      [] OTHER -> RT_Path(scalar)

\* The syn::Type of a type override, as rustc reads it
Type_parse(ty) == IF ty = "Option<String>" THEN RT_Option(RT_Path("String")) ELSE RT_Path(ty)

RECURSIVE FieldType_to_tokens(_)
\* impl ToTokens for FieldType
FieldType_to_tokens(ft) ==
    CASE ft.k = "Custom" -> RT_Path(StringOf(Name_to_type_ident(ft.name)))
      [] ft.k = "Scalar" -> Scalar_to_tokens(ft.scalar)
      [] ft.k = "List" -> RT_Vec(FieldType_to_tokens(ft.of))
      [] ft.k = "Optionnal" -> RT_Option(FieldType_to_tokens(ft.of))
      [] ft.k = "Overriden" -> Type_parse(ft.ty)

\* Faulty variant: the handlers of a subscription return the type of the
\* schema like those of the queries and mutations
Operation_handler_return_type_OfSchema(self, kind) ==
    RT_Result(FieldType_to_tokens(self.return_type), RT_AppsyncError)

\* The return type operation_module gives the handlers of an operation
Operation_handler_return_type(self, kind) ==
    IF kind = "Subscription"
    THEN RT_Result(RT_Option(RT_FilterGroup), RT_AppsyncError)
    ELSE RT_Result(FieldType_to_tokens(self.return_type), RT_AppsyncError)

\* Faulty variant of check_signature: the with_event signature does not ask
\* for the event
Operation_check_signature_NoEvent(self, kind, with_event) ==
    [params |-> [i \in DOMAIN self.args |-> FieldType_to_tokens(self.args[i].field_type)],
     return_type |-> Operation_handler_return_type(self, kind)]

\* The bound of check_signature in the without_event and with_event modules:
\* F: Fn(#(#params_types),*) -> #return_type, and the same with
\* &AppsyncEvent<Operation> after the parameters
Operation_check_signature(self, kind, with_event) ==
    [params |-> [i \in DOMAIN self.args |-> FieldType_to_tokens(self.args[i].field_type)]
                \o (IF with_event THEN <<RT_AppsyncEvent>> ELSE <<>>),
     return_type |-> Operation_handler_return_type(self, kind)]

\* Operation::operation_module
Operation_operation_module(self, kind) ==
    [module_name |-> Name_to_var_ident(self.name),
     check_signature |-> [with_event \in BOOLEAN |-> Operation_check_signature(self, kind, with_event)],
     operation_arguments |-> Operation_argument_extractor(self),
     return_type |-> IF kind = "Subscription" THEN None ELSE Some(self.return_type)]

\* The operations of one kind in the schema
OperationsOf(self, kind) ==
    IF kind = "Query" THEN self.queries
    ELSE IF kind = "Mutation" THEN self.mutations
    ELSE self.subscriptions

\* GraphQLSchema::appsync_operations_to_tokens: the modules with the
\* DefaultOperations trait, the field enums of Operation and the arms of
\* Operation::_execute
GraphQLSchema_appsync_operations_to_tokens(self) ==
    [modules |-> [kind \in OperationKinds |->
                    [i \in DOMAIN OperationsOf(self, kind) |->
                        Operation_operation_module(OperationsOf(self, kind)[i], kind)]],
     default_operations |-> [kind \in OperationKinds |->
                               [i \in DOMAIN OperationsOf(self, kind) |->
                                   Operation_default_op(OperationsOf(self, kind)[i], kind)]],
     field_variants |-> [kind \in OperationKinds |->
                           [i \in DOMAIN OperationsOf(self, kind) |->
                               Operation_variant(OperationsOf(self, kind)[i])]],
     execute_match_arms |-> [kind \in OperationKinds |->
                               [i \in DOMAIN OperationsOf(self, kind) |->
                                   Operation_execute_match_arm(OperationsOf(self, kind)[i], kind)]]]

\* AppsyncOperation::impl_operation_to_tokens for
\* #[appsync_operation(<kind>(<op_name>))]: the method of impl Operation
\* that extracts the arguments and then runs the body of the user
AppsyncOperation_impl_operation_to_tokens(op_kind, op_name) ==
    [op_fct_name |-> Name_to_prefixed_fct_ident(NameFrom(op_name), OperationKind_fct_prefix(op_kind)),
     op_type_module |-> op_kind,
     op_module_name |-> Name_to_var_ident(NameFrom(op_name))]

\* rustc accepts the operations: the methods of the trait have different
\* names, and so have the variants of each field enum
OperationsCompile(oc) ==
    /\ \A kind \in OperationKinds : Distinct(oc.field_variants[kind])
    /\ \A k1, k2 \in OperationKinds :
          \A i \in DOMAIN oc.default_operations[k1], j \in DOMAIN oc.default_operations[k2] :
             oc.default_operations[k1][i].fct_name = oc.default_operations[k2][j].fct_name
                => (k1 = k2 /\ i = j)

(***************************************************************************)
(* The resolver at run time: events, argument extraction, responses        *)
(***************************************************************************)
\* serde(rename_all = "camelCase") on the variants of the field enums
SerdeCamelCase(variant) == ToLowercase(<<variant[1]>>) \o Tail(variant)

\* derive(Deserialize) on Operation: parentTypeName tags the kind and
\* fieldName names the variant
Operation_deserialize(oc, parentTypeName, fieldName) ==
    IF parentTypeName \notin OperationKinds THEN None
    ELSE LET variants == oc.field_variants[parentTypeName]
             hits == { i \in DOMAIN variants : SerdeCamelCase(variants[i]) = fieldName }
         IN  IF hits = {} THEN None
             ELSE Some([kind |-> parentTypeName, variant |-> variants[First(hits)]])

ArgumentText == << "A", "r", "g", "u", "m", "e", "n", "t", " ", "\"" >>

NotExpectedFormatText == << "\"", " ", "i", "s", " ", "n", "o", "t", " ", "t", "h", "e", " ", "e", "x", "p", "e", "c", "t", "e", "d", " ", "f", "o", "r", "m", "a", "t", " ", "(" >>

\* Faulty variant of arg_from_json: an argument that is not there is an
\* error for every type
arg_from_json_MissingIsError(c, ty, args, arg_name) ==
    LET present == args.j = "Object" /\ arg_name \in DOMAIN args.members
        r == IF present THEN Value_deserialize(c, ty, args.members[arg_name])
             ELSE [ok |-> FALSE, error |-> [message |-> << "m", "i", "s", "s", "i", "n", "g" >>]]
    IN  IF r.ok THEN r
        ELSE [ok |-> FALSE,
              error |-> AppsyncError_new(<< "I", "n", "v", "a", "l", "i", "d", "A", "r", "g", "s" >>,
                                         ArgumentText \o arg_name \o NotExpectedFormatText
                                           \o r.error.message \o <<")">>)]

\* arg_from_json: the member arg_name of the arguments, or null when there
\* is none, decoded into the type of the parameter
arg_from_json(c, ty, args, arg_name) ==
    LET taken == IF args.j = "Object" /\ arg_name \in DOMAIN args.members
                 THEN args.members[arg_name]
                 ELSE JNull
        r == Value_deserialize(c, ty, taken)
    IN  IF r.ok THEN r
        ELSE [ok |-> FALSE,
              error |-> AppsyncError_new(<< "I", "n", "v", "a", "l", "i", "d", "A", "r", "g", "s" >>,
                                         ArgumentText \o arg_name \o NotExpectedFormatText
                                           \o r.error.message \o <<")">>)]

\* What arg_from_json leaves in args: take() puts null where the value was
arg_from_json_take(args, arg_name) ==
    IF args.j = "Object" /\ arg_name \in DOMAIN args.members
    THEN JObject([key \in DOMAIN args.members |-> IF key = arg_name THEN JNull ELSE args.members[key]])
    ELSE args

RECURSIVE operation_arguments(_, _, _, _)
\* The tuple operation_arguments returns: the arguments from parameter i
\* on, the first failure ending the extraction
operation_arguments(c, extractor, args, i) ==
    IF i > Len(extractor.param_strs) THEN [ok |-> TRUE, value |-> <<>>]
    ELSE LET r == arg_from_json(c, extractor.params_types[i], args, extractor.param_strs[i])
         IN  IF ~r.ok THEN r
             ELSE LET rest == operation_arguments(c, extractor, args, i + 1)
                  IN  IF rest.ok THEN [ok |-> TRUE, value |-> <<r.value>> \o rest.value] ELSE rest

\* A subscription filter, whose content is left out
V_FilterGroup == [t |-> "FilterGroup"]

\* res_to_json: serde_json::to_value of what a handler returned; a handler
\* of a subscription returns Option<FilterGroup>
res_to_json(c, return_type, res) ==
    IF IsSome(return_type) THEN Value_serialize(c, Unwrap(return_type), res)
    ELSE IF res = None THEN JNull
    ELSE JObject(<< "f", "i", "l", "t", "e", "r", "G", "r", "o", "u", "p" >> :> JArray(<<>>))

\* impl From<Value> for AppsyncResponse
AppsyncResponse_from_Value(value) == [data |-> Some(value), error |-> None]

\* Faulty variant of From<AppsyncError>: the response keeps a data part
AppsyncResponse_from_AppsyncError_KeepsData(value) == [data |-> Some(JNull), error |-> Some(value)]

\* impl From<AppsyncError> for AppsyncResponse
AppsyncResponse_from_AppsyncError(value) == [data |-> None, error |-> Some(value)]

\* AppsyncResponse::unauthorized
AppsyncResponse_unauthorized ==
    AppsyncResponse_from_AppsyncError(
        AppsyncError_new(<< "U", "n", "a", "u", "t", "h", "o", "r", "i", "z", "e", "d" >>, << "T", "h", "i", "s", " ", "o", "p", "e", "r", "a", "t", "i", "o", "n", " ", "c", "a", "n", "n", "o", "t", " ", "b", "e", " ", "a", "u", "t", "h", "o", "r", "i", "z", "e", "d" >>))

K_data == << "d", "a", "t", "a" >>

K_errorType == << "e", "r", "r", "o", "r", "T", "y", "p", "e" >>

K_errorMessage == << "e", "r", "r", "o", "r", "M", "e", "s", "s", "a", "g", "e" >>

\* derive(Serialize) on AppsyncResponse: data always, the members of the
\* error flattened beside it when there is one
AppsyncResponse_serialize(self) ==
    LET data == IF IsSome(self.data) THEN Unwrap(self.data) ELSE JNull
    IN  IF IsSome(self.error)
        THEN JObject(K_data :> data
                       @@ K_errorType :> JString(Unwrap(self.error).error_type)
                       @@ K_errorMessage :> JString(Unwrap(self.error).error_message))
        ELSE JObject(K_data :> data)

\* The error a handler of the user may return
UserError == AppsyncError_new(<< "N", "o", "t", "F", "o", "u", "n", "d" >>, << "n", "o", " ", "s", "u", "c", "h", " ", "p", "l", "a", "y", "e", "r" >>)

\* The operations the user bound a handler to with appsync_operation
BoundOperations ==
    { <<"Query", N_player>>, <<"Mutation", N_createPlayer>>, <<"Subscription", N_onCreate>> }

\* The requests AppSync sends
Event(parentTypeName, fieldName, arguments) ==
    [parentTypeName |-> parentTypeName, fieldName |-> fieldName, arguments |-> arguments]

EventPool ==
    { Event("Query", N_player, JObject(N_id :> JString(<<"x">>))),
      Event("Query", N_player, JObject(N_id :> JString(<<"x">>) @@ N_team :> JString(N_RUST))),
      Event("Query", N_player, JObject(N_id :> JString(<<"x">>) @@ N_team :> JString(N_PYTHON))),
      Event("Query", N_player, JObject(N_id :> JString(<<"x">>) @@ N_team :> JString(N_NOPE))),
      Event("Query", N_player, JObject(N_team :> JString(N_RUST))),
      Event("Query", N_player, JObject(N_id :> JNumber(7))),
      Event("Query", N_player, JObject(<<>>)),
      Event("Query", N_player, JNull),
      Event("Query", N_players, JObject(<<>>)),
      Event("Mutation", N_createPlayer, JObject(N_name :> JString(<<"x">>))),
      Event("Mutation", N_createPlayer, JObject(N_name :> JNull)),
      Event("Mutation", N_deletePlayer, JObject(N_id :> JString(<<"x">>))),
      Event("Mutation", N_deletePlayer, JObject(<<>>)),
      Event("Subscription", N_onCreate, JObject(<<>>)),
      Event("Subscription", N_onCreate, JObject(N_name :> JString(<<"x">>))),
      Event("Subscription", N_onCreate, JObject(N_name :> JNumber(7))),
      Event("Subscription", N_onDelete, JObject(<<>>)) }

\* The events of a batch
BatchEventPool ==
    { Event("Query", N_player, JObject(N_id :> JString(<<"x">>))),
      Event("Query", N_player, JObject(<<>>)),
      Event("Mutation", N_deletePlayer, JObject(N_id :> JString(<<"x">>))) }

MaxEvents == 2

\* The task appsync_handler(event) before its first step: event is the
\* request as it came in, args what event.args holds, trace the steps
\* taken, hooked what the hook answered, invoked the methods execute
\* called, rank the place of the task in the order the tasks finished
NewTask(oc, event) ==
    [tk |-> "start",
     event |-> event,
     operation |-> Unwrap(Operation_deserialize(oc, event.parentTypeName, event.fieldName)),
     args |-> event.arguments,
     trace |-> <<>>,
     hooked |-> <<>>,
     invoked |-> <<>>,
     rank |-> 0,
     outcome |-> None,
     response |-> None]

\* What GraphQLSchema::new left, which serving requests does not touch
schemaVars ==
    <<in_doc, in_tos, in_nos, defs, sd, tos, nos, errors,
      queries, mutations, subscriptions, structures, enums, result>>

DispatchInit == NewStart(DispatchDocuments, DispatchDirectivePool)

\* The expansion of appsync_lambda_main (with or without batch, with or
\* without hook) and of the appsync_operation attributes of the user
LambdaMain ==
    /\ Running
    /\ wop = None
    /\ prog = None
    /\ LET oc == GraphQLSchema_appsync_operations_to_tokens(Unwrap(result).schema)
       IN  /\ OperationsCompile(oc)
           /\ \E batch \in BOOLEAN, hook \in BOOLEAN, b \in {BoundOperations, {}} :
                 prog' = Some([operations |-> oc,
                               handlers |-> { AppsyncOperation_impl_operation_to_tokens(o[1], o[2]) : o \in b },
                               hook |-> hook,
                               batch |-> batch])
    /\ UNCHANGED <<macroVars, newVars, wireVars, typeVars, nameVars, tasks, results>>

\* function_handler without batch: the payload is one event
FunctionHandler ==
    /\ pc = "emitted"
    /\ prog # None
    /\ ~Unwrap(prog).batch
    /\ \E event \in EventPool :
          /\ IsSome(Operation_deserialize(Unwrap(prog).operations, event.parentTypeName, event.fieldName))
          /\ tasks' = <<NewTask(Unwrap(prog).operations, event)>>
    /\ pc' = "serving"
    /\ UNCHANGED <<macroVars, schemaVars, wireVars, typeVars, nameVars, prog, results>>

\* function_handler with batch: appsync_batch_handler spawns one
\* appsync_handler task per event
BatchHandler ==
    /\ pc = "emitted"
    /\ prog # None
    /\ Unwrap(prog).batch
    /\ \E n \in 0..MaxEvents :
          \E events \in [1..n -> BatchEventPool] :
             tasks' = [i \in 1..n |-> NewTask(Unwrap(prog).operations, events[i])]
    /\ pc' = "serving"
    /\ UNCHANGED <<macroVars, schemaVars, wireVars, typeVars, nameVars, prog, results>>

\* The place a task takes in the order of completion when it reaches tk
Rank(ts, tk) ==
    IF tk = "done" THEN Cardinality({ k \in DOMAIN ts : ts[k].tk = "done" }) + 1 ELSE 0

\* Faulty variant of call_hook: the answer of the hook is dropped
AfterHook_Dropped(answer) == "execute"

\* call_hook: if let Some(resp) = hook(&event).await { return resp; }
AfterHook(answer) == IF IsSome(answer) THEN "done" ELSE "execute"

\* appsync_handler up to the call of Operation::execute: the hook, when
\* one is configured, answers None or a response of its own
AppsyncHandler ==
    \E i \in DOMAIN tasks :
       /\ pc = "serving"
       /\ tasks[i].tk = "start"
       /\ IF Unwrap(prog).hook
          THEN \E answer \in {None, Some(AppsyncResponse_unauthorized)} :
                  tasks' = [tasks EXCEPT ![i] = [@ EXCEPT !.tk = AfterHook(answer),
                                                          !.trace = Append(@, "hook"),
                                                          !.hooked = Append(@, answer),
                                                          !.rank = Rank(tasks, AfterHook(answer)),
                                                          !.response = answer]]
          ELSE tasks' = [tasks EXCEPT ![i] = [@ EXCEPT !.tk = "execute"]]
       /\ UNCHANGED <<macroVars, newVars, wireVars, typeVars, nameVars, prog, results>>

\* Faulty variant of the match of _execute: every variant runs the first arm
MatchArm_First(oc, operation) == oc.execute_match_arms[operation.kind][1]

\* The arm of _execute the operation matches
MatchArm(oc, operation) ==
    LET arms == oc.execute_match_arms[operation.kind]
    IN  arms[First({ k \in DOMAIN arms : arms[k].variant = operation.variant })]

\* The method Operation::fct_name names: the one of impl Operation when
\* the user bound a handler, else the one of the DefaultOperations trait
BoundHandlers(p, fct_name) == { h \in p.handlers : h.op_fct_name = fct_name }

DefaultOperation(oc, fct_name) ==
    CHOOSE d \in UNION { Range(oc.default_operations[kind]) : kind \in OperationKinds } :
        d.fct_name = fct_name

\* The module of the operation a handler is bound to
ModuleOf(oc, h) ==
    CHOOSE m \in Range(oc.modules[h.op_type_module]) : m.module_name = h.op_module_name

\* Operation::execute on what _execute returned
Operation_execute(c, return_type, outcome) ==
    IF outcome.ok
    THEN AppsyncResponse_from_Value(res_to_json(c, return_type, outcome.value))
    ELSE AppsyncResponse_from_AppsyncError(outcome.error)

\* Operation::execute calls the method of the matching arm; a default
\* method returns at once
Execute ==
    \E i \in DOMAIN tasks :
       /\ pc = "serving"
       /\ tasks[i].tk = "execute"
       /\ LET oc == Unwrap(prog).operations
              arm == MatchArm(oc, tasks[i].operation)
              d == DefaultOperation(oc, arm.fct_name)
          IN  IF BoundHandlers(Unwrap(prog), arm.fct_name) # {}
              THEN tasks' = [tasks EXCEPT ![i] = [@ EXCEPT !.tk = "arguments",
                                                           !.trace = Append(@, "execute"),
                                                           !.invoked = Append(@, arm.fct_name)]]
              ELSE tasks' = [tasks EXCEPT ![i] = [@ EXCEPT !.tk = "done",
                                                           !.trace = Append(@, "execute"),
                                                           !.invoked = Append(@, arm.fct_name),
                                                           !.outcome = Some(d.body),
                                                           !.rank = Rank(tasks, "done"),
                                                           !.response =
                                                               Some(Operation_execute(Unwrap(code), d.return_type, d.body))]]
       /\ UNCHANGED <<macroVars, newVars, wireVars, typeVars, nameVars, prog, results>>

\* Faulty variant of the ? after operation_arguments: a failure is ignored
ArgumentsOrReturn_Ignored(r) == "body"

\* let (..) = operation_arguments(&mut event)?;
ArgumentsOrReturn(r) == IF r.ok THEN "body" ELSE "done"

\* The method appsync_operation generated, up to the body of the user:
\* operation_arguments takes the arguments of the event and decodes them
OperationArguments ==
    \E i \in DOMAIN tasks :
       /\ pc = "serving"
       /\ tasks[i].tk = "arguments"
       /\ LET oc == Unwrap(prog).operations
              h == CHOOSE h \in BoundHandlers(Unwrap(prog), tasks[i].invoked[Len(tasks[i].invoked)]) : TRUE
              m == ModuleOf(oc, h)
              r == operation_arguments(Unwrap(code), m.operation_arguments, tasks[i].args, 1)
          IN  tasks' = [tasks EXCEPT ![i] =
                           [@ EXCEPT !.tk = ArgumentsOrReturn(r),
                                     !.trace = Append(@, "take"),
                                     !.args = JNull,
                                     !.rank = Rank(tasks, ArgumentsOrReturn(r)),
                                     !.outcome = Some(r),
                                     !.response = IF r.ok THEN None
                                                  ELSE Some(Operation_execute(Unwrap(code), m.return_type, r))]]
       /\ UNCHANGED <<macroVars, newVars, wireVars, typeVars, nameVars, prog, results>>

\* What the body of a handler of the user may return
BodyOutcomes(c, return_type) ==
    {[ok |-> FALSE, error |-> UserError]}
      \cup { [ok |-> TRUE, value |-> v] :
               v \in IF IsSome(return_type) THEN ValuesOf(c, Unwrap(return_type))
                     ELSE {None, Some(V_FilterGroup)} }

\* The body of the user, and Operation::execute on what it returned
HandlerBody ==
    \E i \in DOMAIN tasks :
       /\ pc = "serving"
       /\ tasks[i].tk = "body"
       /\ LET oc == Unwrap(prog).operations
              h == CHOOSE h \in BoundHandlers(Unwrap(prog), tasks[i].invoked[Len(tasks[i].invoked)]) : TRUE
              m == ModuleOf(oc, h)
          IN  \E outcome \in BodyOutcomes(Unwrap(code), m.return_type) :
                 tasks' = [tasks EXCEPT ![i] =
                              [@ EXCEPT !.tk = "done",
                                        !.trace = Append(@, "body"),
                                        !.rank = Rank(tasks, "done"),
                                        !.outcome = Some(outcome),
                                        !.response = Some(Operation_execute(Unwrap(code), m.return_type, outcome))]]
       /\ UNCHANGED <<macroVars, newVars, wireVars, typeVars, nameVars, prog, results>>

\* function_handler returns the response of appsync_handler
ReturnResponse ==
    /\ pc = "serving"
    /\ ~Unwrap(prog).batch
    /\ tasks[1].tk = "done"
    /\ results' = <<Unwrap(tasks[1].response)>>
    /\ pc' = "returned"
    /\ UNCHANGED <<macroVars, schemaVars, wireVars, typeVars, nameVars, prog, tasks>>

\* Faulty variant of the loop over the handles: any finished task is next
NextHandle_AnyDone(ts, rs) ==
    LET done == { k \in DOMAIN ts : ts[k].tk = "done" }
    IN  IF done = {} THEN Len(rs) + 1 ELSE CHOOSE k \in done : \A j \in done : k >= j

\* for h in handles { results.push(h.await.unwrap()) }: the handles are
\* awaited in the order the events came in
NextHandle(ts, rs) == Len(rs) + 1

\* One turn of the loop of appsync_batch_handler
AwaitHandle ==
    /\ pc = "serving"
    /\ Unwrap(prog).batch
    /\ Len(results) < Len(tasks)
    /\ tasks[NextHandle(tasks, results)].tk = "done"
    /\ results' = Append(results, Unwrap(tasks[NextHandle(tasks, results)].response))
    /\ UNCHANGED <<macroVars, newVars, wireVars, typeVars, nameVars, prog, tasks>>

\* appsync_batch_handler returns the results
ReturnBatch ==
    /\ pc = "serving"
    /\ Unwrap(prog).batch
    /\ Len(results) = Len(tasks)
    /\ pc' = "returned"
    /\ UNCHANGED <<macroVars, schemaVars, wireVars, typeVars, nameVars, prog, tasks, results>>

DispatchNext ==
    \/ FindSchemaDefinition
    \/ ProcessRootObject
    \/ ProcessObject
    \/ ProcessInputObject
    \/ ProcessEnum
    \/ SkipDefinition
    \/ SecondSchemaDefinition
    \/ FinishNew
    \/ AppsyncTypesToTokens
    \/ LambdaMain
    \/ FunctionHandler
    \/ AppsyncHandler
    \/ Execute
    \/ OperationArguments
    \/ HandlerBody
    \/ ReturnResponse

SpecDispatch == DispatchInit /\ [][DispatchNext]_vars

BatchNext ==
    \/ FindSchemaDefinition
    \/ ProcessRootObject
    \/ ProcessObject
    \/ ProcessInputObject
    \/ ProcessEnum
    \/ SkipDefinition
    \/ SecondSchemaDefinition
    \/ FinishNew
    \/ AppsyncTypesToTokens
    \/ LambdaMain
    \/ BatchHandler
    \/ AppsyncHandler
    \/ Execute
    \/ OperationArguments
    \/ HandlerBody
    \/ AwaitHandle
    \/ ReturnBatch

SpecBatch == DispatchInit /\ [][BatchNext]_vars

(***************************************************************************)
(* Properties of the dispatch of a request                                 *)
(***************************************************************************)
\* The handler the user bound to the operation of a task, if any
BoundTo(t) ==
    BoundHandlers(Unwrap(prog), MatchArm(Unwrap(prog).operations, t.operation).fct_name)

\* The parameters of the operation of a task
ParametersOf(t) ==
    LET ops == OperationsOf(Unwrap(result).schema, t.operation.kind)
    IN  ops[First({ k \in DOMAIN ops : Name_to_type_ident(ops[k].name) = t.operation.variant })].args

\* A required argument is missing from the arguments of the request, or an
\* argument that is there does not decode into the type of its parameter
BadArguments(t) ==
    LET a == t.event.arguments
        Present(n) == a.j = "Object" /\ n \in DOMAIN a.members
    IN  \E k \in DOMAIN ParametersOf(t) :
           LET f == ParametersOf(t)[k]
           IN  \/ ~Present(f.name.orig) /\ ~RustTypeIsOption(f.field_type)
               \/ Present(f.name.orig)
                    /\ ~Value_deserialize(Unwrap(code), f.field_type, a.members[f.name.orig]).ok

Positions(trace, step) == { k \in DOMAIN trace : trace[k] = step }

\* C12: for an operation bound to a handler of the user the arguments are
\* extracted at most once and before the body; when a required argument is
\* missing or an argument does not decode, the request ends at the
\* extraction with an InvalidArgs error response and the body never runs
C12_BadArgumentsSkipBody ==
    \A i \in DOMAIN tasks :
       LET t == tasks[i]
       IN  BoundTo(t) # {} =>
              /\ Cardinality(Positions(t.trace, "take")) <= 1
              /\ \A b \in Positions(t.trace, "body") : \E k \in Positions(t.trace, "take") : k < b
              /\ BadArguments(t) => Positions(t.trace, "body") = {}
              /\ BadArguments(t) /\ Positions(t.trace, "take") # {} =>
                    /\ t.tk = "done"
                    /\ IsSome(t.response)
                    /\ Unwrap(t.response).data = None
                    /\ IsSome(Unwrap(t.response).error)
                    /\ StringOf(Unwrap(Unwrap(t.response).error).error_type) = "InvalidArgs"

\* A request whose argument is there but does not decode ended at the
\* extraction
C12_Witness ==
    /\ pc = "returned"
    /\ Len(tasks) = 1
    /\ BoundTo(tasks[1]) # {}
    /\ BadArguments(tasks[1])
    /\ tasks[1].event.arguments.j = "Object"
    /\ N_id \in DOMAIN tasks[1].event.arguments.members
    /\ Positions(tasks[1].trace, "take") # {}
    /\ StringOf(Unwrap(results[1].error).error_type) = "InvalidArgs"

\* The method the request names: <prefix of the root kind>_<field name in
\* snake case>
RequestedHandler(event) ==
    Name_to_prefixed_fct_ident(NameFrom(event.fieldName), OperationKind_fct_prefix(event.parentTypeName))

\* C13: Operation::execute calls one handler per request, the one named
\* after the root kind and the field of the request, once; the response is
\* a data response exactly when the handler returned Ok and an error
\* response carrying the error of the handler exactly when it returned Err
C13_OneHandlerOneResponse ==
    \A i \in DOMAIN tasks :
       LET t == tasks[i]
       IN  /\ Len(t.invoked) <= 1
           /\ Cardinality(Positions(t.trace, "execute")) = Len(t.invoked)
           /\ Cardinality(Positions(t.trace, "body")) <= Len(t.invoked)
           /\ \A k \in DOMAIN t.invoked : t.invoked[k] = RequestedHandler(t.event)
           /\ t.tk = "done" /\ t.invoked # <<>> =>
                 /\ IsSome(t.outcome)
                 /\ IsSome(t.response)
                 /\ Unwrap(t.outcome).ok <=>
                       (IsSome(Unwrap(t.response).data) /\ Unwrap(t.response).error = None)
                 /\ ~Unwrap(t.outcome).ok <=>
                       (Unwrap(t.response).data = None
                          /\ Unwrap(t.response).error = Some(Unwrap(t.outcome).error))

\* The handler bound to a mutation ran once and failed,
\* and its error came back
C13_Witness ==
    /\ pc = "returned"
    /\ Len(tasks) = 1
    /\ tasks[1].event.fieldName = N_createPlayer
    /\ Len(tasks[1].invoked) = 1
    /\ StringOf(tasks[1].invoked[1]) = "mutation_create_player"
    /\ Positions(tasks[1].trace, "body") = {Len(tasks[1].trace)}
    /\ results[1].error = Some(UserError)

\* The responses built so far: the ones of the tasks and the returned ones
Responses ==
    { Unwrap(tasks[i].response) : i \in { k \in DOMAIN tasks : IsSome(tasks[k].response) } }
      \cup Range(results)

\* C14: every response has its data part or its error part and never both;
\* a success serializes to an object with data only, an error to an object
\* with errorType, errorMessage and a null data
C14_DataXorError ==
    \A r \in Responses :
       LET json == AppsyncResponse_serialize(r).members
       IN  /\ IsSome(r.data) # IsSome(r.error)
           /\ IsSome(r.data) =>
                 /\ DOMAIN json = {K_data}
                 /\ json[K_data] = Unwrap(r.data)
           /\ IsSome(r.error) =>
                 /\ DOMAIN json = {K_data, K_errorType, K_errorMessage}
                 /\ json[K_data] = JNull
                 /\ json[K_errorType] = JString(Unwrap(r.error).error_type)
                 /\ json[K_errorMessage] = JString(Unwrap(r.error).error_message)

\* An error response built from the error of a handler of the user was
\* returned
C14_Witness ==
    /\ pc = "returned"
    /\ Len(results) = 1
    /\ IsSome(results[1].error)
    /\ results[1].data = None
    /\ tasks[1].invoked # <<>>
    /\ StringOf(Unwrap(results[1].error).error_type) = "NotFound"

\* C15: a query or mutation without a handler of the user answers with the
\* error Unimplemented and the message <Query|Mutation> '<name of the
\* operation in the schema>' is unimplemented (the name between backticks
\* in the program); a subscription without one answers with a success whose
\* data is null
C15_UnboundOperationDefault ==
    \A i \in DOMAIN tasks :
       LET t == tasks[i]
       IN  BoundTo(t) = {} /\ t.invoked # <<>> =>
              /\ t.tk = "done"
              /\ Positions(t.trace, "take") = {}
              /\ Positions(t.trace, "body") = {}
              /\ IF t.event.parentTypeName = "Subscription"
                 THEN t.response = Some([data |-> Some(JNull), error |-> None])
                 ELSE /\ Unwrap(t.response).data = None
                      /\ StringOf(Unwrap(Unwrap(t.response).error).error_type) = "Unimplemented"
                      /\ StringOf(Unwrap(Unwrap(t.response).error).error_message) =
                            t.event.parentTypeName \o " '" \o StringOf(t.event.fieldName)
                              \o "' is unimplemented"

\* The mutation the user bound no handler to answered Unimplemented while
\* other operations have handlers
C15_Witness ==
    /\ pc = "returned"
    /\ Len(results) = 1
    /\ Unwrap(prog).handlers # {}
    /\ BoundTo(tasks[1]) = {}
    /\ tasks[1].invoked # <<>>
    /\ IsSome(results[1].error)
    /\ StringOf(Unwrap(results[1].error).error_message) = "Mutation 'deletePlayer' is unimplemented"

\* C17: a configured hook runs once and first; when it answers
\* Some(response) the task ends there with that response, no argument is
\* taken and no handler is called; when it answers None the operation is
\* dispatched; the arguments are never taken before the hook ran
C17_HookFirst ==
    \A i \in DOMAIN tasks :
       LET t == tasks[i]
       IN  /\ Len(t.hooked) = Cardinality(Positions(t.trace, "hook"))
           /\ IF Unwrap(prog).hook
              THEN /\ Len(t.hooked) <= 1
                   /\ t.tk # "start" => t.hooked # <<>> /\ t.trace[1] = "hook"
              ELSE t.hooked = <<>>
           /\ \A h \in DOMAIN t.hooked :
                 IF IsSome(t.hooked[h])
                 THEN /\ t.tk = "done"
                      /\ t.response = t.hooked[h]
                      /\ t.trace = <<"hook">>
                      /\ t.invoked = <<>>
                      /\ t.args = t.event.arguments
                      /\ pc = "returned" /\ ~Unwrap(prog).batch => results = <<Unwrap(t.hooked[h])>>
                 ELSE /\ t.tk \in {"execute", "arguments", "body", "done"}
                      /\ t.tk # "execute" => Len(t.invoked) = 1

\* The hook answered a request whose operation has a handler and whose
\* arguments decode, and its response was returned
C17_Witness ==
    /\ pc = "returned"
    /\ Len(results) = 1
    /\ BoundTo(tasks[1]) # {}
    /\ ~BadArguments(tasks[1])
    /\ tasks[1].hooked = <<Some(AppsyncResponse_unauthorized)>>
    /\ results[1] = AppsyncResponse_unauthorized
    /\ tasks[1].args # JNull

\* C16: appsync_batch_handler returns one response per event, the i-th one
\* being the response of the task of the i-th event, in whatever order the
\* tasks finished
C16_BatchKeepsOrder ==
    Len(tasks) > 0 /\ Unwrap(prog).batch =>
       /\ Len(results) <= Len(tasks)
       /\ \A i \in DOMAIN results :
             /\ tasks[i].tk = "done"
             /\ results[i] = Unwrap(tasks[i].response)
       /\ pc = "returned" => Len(results) = Len(tasks)

\* A batch of two events with different responses was answered, the task
\* of the second event having finished first
C16_Witness ==
    /\ pc = "returned"
    /\ Len(tasks) = 2
    /\ tasks[2].rank = 1
    /\ tasks[1].rank = 2
    /\ Len(results) = 2
    /\ results[1] # results[2]
    /\ results[1] = Unwrap(tasks[1].response)

(***************************************************************************)
(* Names on their own: an identifier is split into words, renamed,         *)
(* re-cased and turned into a Rust identifier                              *)
(***************************************************************************)
\* The characters identifiers are drawn from: a lowercase letter, an
\* uppercase letter, the underscore and a digit
NameAlphabet == {"a", "B", "_", "1"}

MaxIdentLen == 3

N_macro_rules == << "m", "a", "c", "r", "o", "_", "r", "u", "l", "e", "s" >>

N_Self == << "S", "e", "l", "f" >>

\* GraphQL names: every string over the alphabet that does not start with
\* a digit, and names of the schemas of the tests
Identifiers ==
    { s \in UNION { [1..n -> NameAlphabet] : n \in 1..MaxIdentLen } : s[1] # "1" }
      \cup { N_type, N_self, N_Self, N_crate, N_await, N_myField, N_macro_rules, N_PYTHON, N_Player,
             N_createPlayer }

\* The new names of name overrides
OverrideStrings == { N_type, N_self, N_no_crate, N_NewPlayer }

CaseTypes == {"Camel", "Pascal", "Snake", "Upper"}

NameInit ==
    /\ ident \in Identifiers
    /\ nname = None
    /\ nres = None
    /\ TypeIdle
    /\ NewIdle
    /\ WireIdle
    /\ MacroIdle

\* Name::from(ident)
BuildName ==
    /\ ident # <<>>
    /\ nname = None
    /\ nname' = Some(NameFrom(ident))
    /\ UNCHANGED <<macroVars, ident, nres, typeVars, newVars, wireVars, reqVars>>

\* name.override_name(new_name), as apply_name_overrides calls it
OverrideName ==
    /\ IsSome(nname)
    /\ Unwrap(nname).name_override = None
    /\ nres = None
    /\ \E new_name \in OverrideStrings :
          nname' = Some(Name_override_name(Unwrap(nname), new_name))
    /\ UNCHANGED <<macroVars, ident, nres, typeVars, newVars, wireVars, reqVars>>

\* name.to_case(case)
ToCase ==
    /\ IsSome(nname)
    /\ nres = None
    /\ \E case \in CaseTypes :
          nres' = Some([op |-> "to_case", case |-> case, out |-> Name_to_case(Unwrap(nname), case)])
    /\ UNCHANGED <<macroVars, ident, nname, typeVars, newVars, wireVars, reqVars>>

\* name.to_var_ident(), and the field FieldContext emits under that name
ToVarIdent ==
    /\ IsSome(nname)
    /\ nres = None
    /\ nres' = Some([op |-> "to_var_ident",
                     ident_str |-> Name_to_case(Unwrap(nname), "Snake"),
                     var_ident |-> Name_to_var_ident(Unwrap(nname)),
                     field |-> FieldContext_to_tokens([name |-> Unwrap(nname),
                                                       field_type |-> FT_Scalar("String")])])
    /\ UNCHANGED <<macroVars, ident, nname, typeVars, newVars, wireVars, reqVars>>

\* Name::from(name.to_case(CaseType::case(ident))) for a Name built from
\* ident
RoundTrip ==
    /\ IsSome(nname)
    /\ Unwrap(nname).name_override = None
    /\ nres = None
    /\ LET case == CaseType_case(ident)
           out == Name_to_case(Unwrap(nname), case)
       IN  nres' = Some([op |-> "round_trip", case |-> case, out |-> out, again |-> NameFrom(out)])
    /\ UNCHANGED <<macroVars, ident, nname, typeVars, newVars, wireVars, reqVars>>

NameNext ==
    \/ BuildName
    \/ OverrideName
    \/ ToCase
    \/ ToVarIdent
    \/ RoundTrip

SpecName == NameInit /\ [][NameNext]_vars

(***************************************************************************)
(* Properties of names                                                     *)
(***************************************************************************)
\* C18: a Name built from an identifier, put back into the casing the
\* identifier was classified as and built again has the same words,
\* compared without regard to case
C18_RoundTripKeepsWords ==
    IsSome(nres) /\ Unwrap(nres).op = "round_trip" =>
       LET first == Unwrap(nname).words
           again == Unwrap(nres).again.words
       IN  /\ Len(again) = Len(first)
           /\ \A k \in DOMAIN first : ToLowercase(again[k]) = ToLowercase(first[k])

\* A camel case identifier of two words, one of them with a digit, went
\* through the round trip
C18_Witness ==
    /\ IsSome(nres)
    /\ Unwrap(nres).op = "round_trip"
    /\ Unwrap(nres).case = "Camel"
    /\ Len(Unwrap(nname).words) = 2
    /\ ident = <<"a", "1", "B">>
    /\ Unwrap(nres).out = ident

\* C19: to_var_ident never returns a bare reserved word, with or without a
\* name override: crate, self and super come out with the prefix r_, every
\* other reserved word as a raw identifier, and the field keeps the schema
\* name on the wire
C19_NeverBareKeyword ==
    IsSome(nres) /\ Unwrap(nres).op = "to_var_ident" =>
       LET r == Unwrap(nres)
           produced == StringOf(r.ident_str)
       IN  /\ ~(~r.var_ident.raw /\ StringOf(r.var_ident.sym) \in RUST_KEYWORDS \cup RUST_INESCAPABLE_KEYWORDS)
           /\ produced \in RUST_INESCAPABLE_KEYWORDS => r.var_ident = Ident_new(<<"r", "_">> \o r.ident_str)
           /\ produced \in RUST_KEYWORDS => r.var_ident = Ident_new_raw(r.ident_str)
           /\ produced \in RUST_KEYWORDS \cup RUST_INESCAPABLE_KEYWORDS =>
                 SerdeFieldName(r.field) = Unwrap(nname).orig

\* C20: override_name leaves orig and the words of the Name as they were,
\* and afterwards every casing request returns the new name verbatim
C20_OverrideKeepsOrigAndWords ==
    /\ [][IsSome(nname) /\ IsSome(nname') =>
             /\ Unwrap(nname').orig = Unwrap(nname).orig
             /\ Unwrap(nname').words = Unwrap(nname).words]_vars
    /\ [](IsSome(nname) =>
             /\ Unwrap(nname).orig = ident
             /\ Unwrap(nname).words = NameWords(ident)
             /\ IsSome(nres) /\ Unwrap(nres).op = "to_case" /\ IsSome(Unwrap(nname).name_override) =>
                   Unwrap(nres).out = Unwrap(Unwrap(nname).name_override))

\* A Name of two words was renamed and asked for its Pascal case, which
\* is the new name and not the words joined
C20_Witness ==
    /\ ident = N_myField
    /\ IsSome(nname)
    /\ Unwrap(nname).name_override = Some(N_no_crate)
    /\ Unwrap(nname).orig = N_myField
    /\ Len(Unwrap(nname).words) = 2
    /\ IsSome(nres)
    /\ Unwrap(nres).op = "to_case"
    /\ Unwrap(nres).case = "Pascal"
    /\ Unwrap(nres).out = N_no_crate

(***************************************************************************)
(* graphql.rs: the references to a renamed type                            *)
(***************************************************************************)
\* The FieldType references of the compiled model, each with the type its
\* declaration in the document compiles to: the fields of the structures,
\* the return type and the arguments of the operations
References ==
    LET ofRoot(root, ops) ==
            UNION { UNION { { [at |-> <<"operation", root, ops[o].name.orig>>,
                               ft |-> ops[o].return_type,
                               declared |-> FieldType_from(in_doc[i].fields[o].field_type)] }
                            \cup { [at |-> <<"argument", root, ops[o].name.orig, ops[o].args[a].name.orig>>,
                                    ft |-> ops[o].args[a].field_type,
                                    declared |-> FieldType_from(in_doc[i].fields[o].arguments[a].value_type)]
                                   : a \in DOMAIN ops[o].args }
                            : o \in DOMAIN ops }
                    : i \in Declared(in_doc, {"Object"}, root) }
    IN  UNION { { [at |-> <<"field", structures[s].name.orig, structures[s].fields[j].name.orig>>,
                   ft |-> structures[s].fields[j].field_type,
                   declared |-> DeclaredFieldType(in_doc[i], j)]
                  : j \in DOMAIN structures[s].fields, i \in Declared(in_doc, {"Object", "InputObject"}, structures[s].name.orig) }
                : s \in DOMAIN structures }
        \cup ofRoot(sd.query, UnwrapOrDefault(queries))
        \cup ofRoot(sd.mutation, UnwrapOrDefault(mutations))
        \cup ofRoot(sd.subscription, UnwrapOrDefault(subscriptions))

\* The identifiers the structures and enums compiled so far are emitted with
EmittedTypeIdents ==
    { Name_to_type_ident(structures[s].name) : s \in DOMAIN structures }
    \cup { Name_to_type_ident(enums[e].name) : e \in DOMAIN enums }

\* C21: a name override of a structure or an enum changes the identifier the
\* type is emitted with and nothing else: every FieldType reference of the
\* model (structure field, operation argument, operation return type) that
\* no type override has re-pointed is the type its declaration compiles to,
\* whose leaf carries no override and prints the original type name.
C21_NameOverrideLeavesReferences ==
    \A r \in References :
        LET leaf == LeafOf(r.ft)
        IN  /\ leaf.k # "Overriden" => r.ft = r.declared
            /\ leaf.k = "Custom" =>
                  /\ leaf.name.name_override = None
                  /\ Name_to_type_ident(leaf.name) = Name_to_type_ident(NameFrom(LeafOf(r.declared).name.orig))

\* Player is emitted as NewPlayer and Team as NewTeam, while Query.players
\* and Player.team still name Player and Team, which are no longer emitted
C21_Witness ==
    /\ pc = "done"
    /\ in_doc = DocMain
    /\ Unwrap(result).ok
    /\ NameDirectivesIn(in_nos) = { NameOverride(N_Player, None, N_NewPlayer), NameOverride(N_Team, None, N_NewTeam) }
    /\ EmittedTypeIdents = { N_NewPlayer, N_NewTeam, N_PlayerInput }
    /\ \E r \in References :
          /\ r.at = <<"operation", N_Query, N_players>>
          /\ LeafOf(r.ft) = FT_Custom(NameFrom(N_Player))
    /\ \E r \in References :
          /\ r.at = <<"field", N_Player, N_team>>
          /\ LeafOf(r.ft) = FT_Custom(NameFrom(N_Team))

(***************************************************************************)
(* appsync_operation: the compile-time check of the handler signature      *)
(***************************************************************************)
\* The type overrides of the checked signatures: an argument and the return
\* type of a query, an argument and the return type of a subscription
SignatureDirectivePool ==
    { TypeOverride(N_Query, N_player, Some(N_id), "String"),
      TypeOverride(N_Query, N_player, None, "String"),
      TypeOverride(N_Subscription, N_onCreate, Some(N_name), "ID"),
      TypeOverride(N_Subscription, N_onCreate, None, "String") }

\* The number of parameters of a user function
MaxParams == 3

\* The parameter types and return types the user functions are written with
ParamTypes ==
    { RT_Path("String"), RT_Path("ID"), RT_Option(RT_Path("Team")), RT_Option(RT_Path("ID")), RT_AppsyncEvent }

ReturnTypes ==
    { RT_Result(RT_Option(RT_Path("Team")), RT_AppsyncError),
      RT_Result(RT_Option(RT_Path("String")), RT_AppsyncError),
      RT_Result(RT_Option(RT_FilterGroup), RT_AppsyncError),
      RT_Option(RT_Path("Team")) }

\* struct Fct: the function under the attribute, its parameter types and
\* its return type
FctPool ==
    { [args |-> a, return_type |-> r] :
        a \in UNION { [1..n -> ParamTypes] : n \in 0..MaxParams }, r \in ReturnTypes }

\* rustc on check_signature(fct_name): the fn item satisfies the bound
\* F: Fn(params) -> return_type when its parameter types and its return type
\* are those of the bound
Rustc_check_signature(bound, f) == f.args = bound.params /\ f.return_type = bound.return_type

SignatureInit == NewStart({DocDispatch}, SignatureDirectivePool)

\* #[appsync_operation(kind(op_name))] or
\* #[appsync_operation(kind(op_name), with_appsync_event)] on a function:
\* check_signature_to_tokens calls the check_signature of the module of the
\* operation, in its with_event or without_event part
CheckSignature ==
    /\ Running
    /\ fct = None
    /\ LET schema == Unwrap(result).schema
           oc == GraphQLSchema_appsync_operations_to_tokens(schema)
       IN  /\ OperationsCompile(oc)
           /\ \E kind \in OperationKinds, with_event \in BOOLEAN, f \in FctPool :
                 \E i \in DOMAIN OperationsOf(schema, kind) :
                    LET op_name == OperationsOf(schema, kind)[i].name.orig
                        module == ModuleOf(oc, AppsyncOperation_impl_operation_to_tokens(kind, op_name))
                    IN  /\ fct' = Some([op_kind |-> kind, op_name |-> op_name, with_appsync_event |-> with_event,
                                        args |-> f.args, return_type |-> f.return_type])
                        /\ accepted' = Some(Rustc_check_signature(module.check_signature[with_event], f))
    /\ UNCHANGED <<call, returned, parsed, options, outputs, typeVars, newVars, wireVars, reqVars, nameVars>>

SignatureNext ==
    \/ FindSchemaDefinition
    \/ ProcessRootObject
    \/ ProcessObject
    \/ ProcessInputObject
    \/ ProcessEnum
    \/ SkipDefinition
    \/ FinishNew
    \/ AppsyncTypesToTokens
    \/ CheckSignature

SpecSignature == SignatureInit /\ [][SignatureNext]_vars

\* The name of the root type of a kind of operation
RootNameOf(kind) ==
    IF kind = "Query" THEN sd.query ELSE IF kind = "Mutation" THEN sd.mutation ELSE sd.subscription

\* The field of the document that declares operation op_name of a kind
DeclaredOperation(kind, op_name) ==
    LET i == CHOOSE i \in Declared(in_doc, {"Object"}, RootNameOf(kind)) : TRUE
        j == CHOOSE j \in DOMAIN in_doc[i].fields : in_doc[i].fields[j].name = op_name
    IN  in_doc[i].fields[j]

\* The Rust type of a type of the document at a place of an operation, after
\* the type override of the macro invocation that names the place, if any
TypeAfterOverrides(declared, kind, op_name, arg_name) ==
    LET here == { d \in TypeDirectivesIn(in_tos) :
                    d.type_name = RootNameOf(kind) /\ d.field_name = op_name /\ d.arg_name = arg_name }
    IN  IF here = {} THEN FieldType_to_tokens(FieldType_from(declared))
        ELSE FieldType_to_tokens(FieldType_override_type(FieldType_from(declared), CHOOSE d \in here : TRUE))

\* The parameter types the schema and the overrides ask of a handler
ExpectedParams(kind, op_name, with_event) ==
    LET arguments == DeclaredOperation(kind, op_name).arguments
    IN  [a \in DOMAIN arguments |->
            TypeAfterOverrides(arguments[a].value_type, kind, op_name, Some(arguments[a].name))]
        \o (IF with_event THEN <<RT_AppsyncEvent>> ELSE <<>>)

\* The return type the schema and the overrides ask of a handler
ExpectedReturn(kind, op_name) ==
    IF kind = "Subscription"
    THEN RT_Result(RT_Option(RT_FilterGroup), RT_AppsyncError)
    ELSE RT_Result(TypeAfterOverrides(DeclaredOperation(kind, op_name).field_type, kind, op_name, None),
                   RT_AppsyncError)

\* C22: check_signature accepts a user function exactly when its parameter
\* types are the argument types of the operation after the type overrides,
\* in the order of the schema, followed by &AppsyncEvent<Operation> when
\* with_appsync_event is given, and its return type is Result of the return
\* type of the operation (of Option<FilterGroup> for a subscription); any
\* other function is rejected.
C22_CheckSignatureExact ==
    IsSome(fct) =>
        LET f == Unwrap(fct)
        IN  Unwrap(accepted) <=>
                /\ f.args = ExpectedParams(f.op_kind, f.op_name, f.with_appsync_event)
                /\ f.return_type = ExpectedReturn(f.op_kind, f.op_name)

\* Query.player with its id overridden to String and with_appsync_event:
\* (String, Option<Team>, &AppsyncEvent) -> Result<Option<Team>, _> is accepted
C22_Witness ==
    /\ IsSome(fct)
    /\ TypeDirectivesIn(in_tos) = { TypeOverride(N_Query, N_player, Some(N_id), "String") }
    /\ Unwrap(fct) = [op_kind |-> "Query", op_name |-> N_player, with_appsync_event |-> TRUE,
                      args |-> <<RT_Path("String"), RT_Option(RT_Path("Team")), RT_AppsyncEvent>>,
                      return_type |-> RT_Result(RT_Option(RT_Path("Team")), RT_AppsyncError)]
    /\ accepted = Some(TRUE)

\* The same function without its event parameter is rejected
C22_WitnessRejected ==
    /\ IsSome(fct)
    /\ TypeDirectivesIn(in_tos) = { TypeOverride(N_Query, N_player, Some(N_id), "String") }
    /\ Unwrap(fct) = [op_kind |-> "Query", op_name |-> N_player, with_appsync_event |-> TRUE,
                      args |-> <<RT_Path("String"), RT_Option(RT_Path("Team"))>>,
                      return_type |-> RT_Result(RT_Option(RT_Path("Team")), RT_AppsyncError)]
    /\ accepted = Some(FALSE)

(***************************************************************************)
(* appsync_lambda_main/mod.rs: the optional parameters of the macro        *)
(***************************************************************************)
N_verify == << "v", "e", "r", "i", "f", "y" >>

\* enum OptionalParameter
OptionalParameter_Flag(kind, b) == [p |-> kind, b |-> b]

OptionalParameter_Hook(hook_ident) == [p |-> "Hook", hook_ident |-> hook_ident]

OptionalParameter_FieldTypeOverride(fto) == [p |-> "FieldTypeOverride", fto |-> fto]

FlagParameters ==
    { "Batch", "ExcludeLambdaHandler", "OnlyLambdaHandler", "ExcludeAppsyncTypes", "OnlyAppsyncTypes",
      "ExcludeAppsyncOperations", "OnlyAppsyncOperations" }

\* The parameters a macro invocation is written with
ParameterPool ==
    { OptionalParameter_Flag(kind, b) : kind \in FlagParameters, b \in BOOLEAN }
    \cup { OptionalParameter_Hook(N_verify),
           OptionalParameter_FieldTypeOverride(TypeOverride(N_Player, N_id, None, "String")) }

\* The number of optional parameters of one macro invocation
MaxParameters == 3

\* impl Default for OptionalParameters
OptionalParameters_default ==
    [batch |-> TRUE, appsync_types |-> TRUE, appsync_operations |-> TRUE, lambda_handler |-> TRUE,
     hook |-> None, ftos |-> <<>>]

\* self.ftos.entry(fto.structure_name()).or_default().push(fto)
Ftos_push(ftos, fto) ==
    IF fto.type_name \in DOMAIN ftos
    THEN [ftos EXCEPT ![fto.type_name] = Append(@, fto)]
    ELSE (fto.type_name :> <<fto>>) @@ ftos

\* Faulty variant of set: an only_ parameter turns the two other outputs
\* off and leaves its own output as it was
OptionalParameters_set_OnlyKeepsOwn(self, p) ==
    CASE p.p = "Batch" -> [self EXCEPT !.batch = p.b]
      [] p.p = "ExcludeLambdaHandler" /\ p.b -> [self EXCEPT !.lambda_handler = FALSE]
      [] p.p = "OnlyLambdaHandler" /\ p.b ->
            [self EXCEPT !.appsync_types = FALSE, !.appsync_operations = FALSE]
      [] p.p = "ExcludeAppsyncTypes" /\ p.b -> [self EXCEPT !.appsync_types = FALSE]
      [] p.p = "OnlyAppsyncTypes" /\ p.b ->
            [self EXCEPT !.lambda_handler = FALSE, !.appsync_operations = FALSE]
      [] p.p = "ExcludeAppsyncOperations" /\ p.b -> [self EXCEPT !.appsync_operations = FALSE]
      [] p.p = "OnlyAppsyncOperations" /\ p.b ->
            [self EXCEPT !.lambda_handler = FALSE, !.appsync_types = FALSE]
      [] p.p = "Hook" -> [self EXCEPT !.hook = Some(p.hook_ident)]
      [] p.p = "FieldTypeOverride" -> [self EXCEPT !.ftos = Ftos_push(@, p.fto)]
      [] OTHER -> self

\* OptionalParameters::set
OptionalParameters_set(self, p) ==
    CASE p.p = "Batch" -> [self EXCEPT !.batch = p.b]
      [] p.p = "ExcludeLambdaHandler" /\ p.b -> [self EXCEPT !.lambda_handler = FALSE]
      [] p.p = "OnlyLambdaHandler" /\ p.b ->
            [self EXCEPT !.lambda_handler = TRUE, !.appsync_types = FALSE, !.appsync_operations = FALSE]
      [] p.p = "ExcludeAppsyncTypes" /\ p.b -> [self EXCEPT !.appsync_types = FALSE]
      [] p.p = "OnlyAppsyncTypes" /\ p.b ->
            [self EXCEPT !.lambda_handler = FALSE, !.appsync_types = TRUE, !.appsync_operations = FALSE]
      [] p.p = "ExcludeAppsyncOperations" /\ p.b -> [self EXCEPT !.appsync_operations = FALSE]
      [] p.p = "OnlyAppsyncOperations" /\ p.b ->
            [self EXCEPT !.lambda_handler = FALSE, !.appsync_types = FALSE, !.appsync_operations = TRUE]
      [] p.p = "Hook" -> [self EXCEPT !.hook = Some(p.hook_ident)]
      [] p.p = "FieldTypeOverride" -> [self EXCEPT !.ftos = Ftos_push(@, p.fto)]
      [] OTHER -> self

\* impl ToTokens for AppsyncLambdaMain: the parts of the output
AppsyncLambdaMain_to_tokens(self) ==
    (IF self.appsync_types THEN {"appsync_types"} ELSE {})
    \cup (IF self.appsync_operations THEN {"appsync_operations"} ELSE {})
    \cup (IF self.lambda_handler THEN {"lambda_handler"} ELSE {})

\* impl Parse for AppsyncLambdaMain, after the path of the schema:
\* let mut options = OptionalParameters::default()
OptionsInit ==
    /\ parsed = <<>>
    /\ options = Some(OptionalParameters_default)
    /\ outputs = None
    /\ fct = None
    /\ accepted = None
    /\ call = None
    /\ returned = None
    /\ TypeIdle
    /\ NewIdle
    /\ WireIdle
    /\ NameIdle

\* The loop of impl Parse for AppsyncLambdaMain: options.set(input.parse()?)
SetParameter ==
    /\ outputs = None
    /\ Len(parsed) < MaxParameters
    /\ \E p \in ParameterPool :
          /\ options' = Some(OptionalParameters_set(Unwrap(options), p))
          /\ parsed' = Append(parsed, p)
    /\ UNCHANGED <<call, returned, outputs, fct, accepted, typeVars, newVars, wireVars, reqVars, nameVars>>

\* appsync_lambda_main_impl: the invocation is expanded with the options
\* the loop left
ExpandLambdaMain ==
    /\ outputs = None
    /\ outputs' = Some(AppsyncLambdaMain_to_tokens(Unwrap(options)))
    /\ UNCHANGED <<call, returned, parsed, options, fct, accepted, typeVars, newVars, wireVars, reqVars, nameVars>>

OptionsNext ==
    \/ SetParameter
    \/ ExpandLambdaMain

SpecOptions == OptionsInit /\ [][OptionsNext]_vars

\* The output an only_ parameter names
OnlyOutput(kind) ==
    CASE kind = "OnlyAppsyncTypes" -> "appsync_types"
      [] kind = "OnlyAppsyncOperations" -> "appsync_operations"
      [] kind = "OnlyLambdaHandler" -> "lambda_handler"

\* C23: an invocation without option generates the types, the operations and
\* the Lambda handler; an invocation whose last option is only_appsync_types
\* = true (only_appsync_operations, only_lambda_handler) generates exactly
\* that output, whatever options come before it.
C23_OnlySelectsOneOutput ==
    IsSome(outputs) =>
        /\ parsed = <<>> => Unwrap(outputs) = {"appsync_types", "appsync_operations", "lambda_handler"}
        /\ \A kind \in {"OnlyAppsyncTypes", "OnlyAppsyncOperations", "OnlyLambdaHandler"} :
              (parsed # <<>> /\ parsed[Len(parsed)] = OptionalParameter_Flag(kind, TRUE)) =>
                  Unwrap(outputs) = {OnlyOutput(kind)}

\* exclude_appsync_types = true, only_lambda_handler = true and then
\* only_appsync_types = true: the types alone are generated
C23_Witness ==
    /\ parsed = << OptionalParameter_Flag("ExcludeAppsyncTypes", TRUE),
                   OptionalParameter_Flag("OnlyLambdaHandler", TRUE),
                   OptionalParameter_Flag("OnlyAppsyncTypes", TRUE) >>
    /\ outputs = Some({"appsync_types"})

(***************************************************************************)
(* graphql.rs: the capabilities of the structures of input types           *)
(***************************************************************************)
\* The generated structs that come from a declaration of one of the kinds
StructsDeclaredAs(kinds) ==
    { k \in DOMAIN Unwrap(code).structs :
        Declared(in_doc, kinds, Unwrap(result).schema.structures[k].name.orig) # {} }

N_Changes == << "C", "h", "a", "n", "g", "e", "s" >>

N_Node == << "N", "o", "d", "e" >>

N_SearchResult == << "S", "e", "a", "r", "c", "h", "R", "e", "s", "u", "l", "t" >>

N_auth == << "a", "u", "t", "h" >>

\* A schema block that names the query and the mutation roots, a type
\* called Query that is no root, and every kind of declaration
DocKinds ==
    << GObject(N_Query, <<GField(N_id, <<>>, T_Req(S_ID))>>),
       GSchema(Some(N_Root), Some(N_Changes), None),
       GObject(N_Root, G_QueryFields),
       GObject(N_Changes, G_Mutation.fields),
       G_Subscription, G_Player, G_Team, G_PlayerInput,
       GOther("Scalar", N_DateTime), GOther("Interface", N_Node), GOther("Union", N_SearchResult),
       GOther("TypeExtension", N_Root), GOther("DirectiveDefinition", N_auth) >>

DeclarationDocuments == Documents \cup {DocKinds}

DeclarationDirectivePool ==
    { NameOverride(N_Query, None, N_renamed),
      NameOverride(N_Team, None, N_NewTeam),
      TypeOverride(N_Query, N_player, None, "NewPlayer") }

DeclarationInit == NewStart(DeclarationDocuments, DeclarationDirectivePool)

SpecDeclarations == DeclarationInit /\ [][NewNext]_vars

\* The name of the root of a role: the one the schema block of the document
\* gives the role, else the default name
RoleName(doc, role) ==
    LET blocks == { i \in DOMAIN doc : doc[i].def = "SchemaDefinition" }
        named == { doc[i][role] : i \in blocks }
    IN  IF \E o \in named : IsSome(o)
        THEN Unwrap(CHOOSE o \in named : IsSome(o))
        ELSE IF role = "query" THEN N_Query
             ELSE IF role = "mutation" THEN N_Mutation ELSE N_Subscription

\* The operations of a role in the schema GraphQLSchema::new returned
RoleOperations(role) ==
    IF role = "query" THEN Unwrap(result).schema.queries
    ELSE IF role = "mutation" THEN Unwrap(result).schema.mutations
    ELSE Unwrap(result).schema.subscriptions

Roles == {"query", "mutation", "subscription"}

\* C25: in the schema GraphQLSchema::new returns, the fields of the object
\* type that bears the root name of a role (the name the schema block gives
\* the role, else Query, Mutation, Subscription) are the operations of that
\* role, one per field in the order of the declaration, and the type is no
\* structure; every other object type and every input type is exactly one
\* structure and every enum type exactly one enum; scalar, interface,
\* union, type-extension and directive declarations add nothing, and
\* without override directives no declaration raises an error.
C25_DeclarationsClassified ==
    /\ (pc = "done" /\ SchemaBlockCount(in_doc) <= 1 /\ in_tos = <<>> /\ in_nos = <<>>) => Unwrap(result).ok
    /\ (pc = "done" /\ Unwrap(result).ok) =>
          LET schema == Unwrap(result).schema
              rootNames == { RoleName(in_doc, role) : role \in Roles }
              structs == { i \in DOMAIN in_doc :
                             \/ in_doc[i].def = "InputObject"
                             \/ in_doc[i].def = "Object" /\ in_doc[i].name \notin rootNames }
              enumDecls == { i \in DOMAIN in_doc : in_doc[i].def = "Enum" }
          IN  /\ \A role \in Roles :
                    LET decls == Declared(in_doc, {"Object"}, RoleName(in_doc, role))
                        ops == RoleOperations(role)
                    IN  /\ decls = {} => ops = <<>>
                        /\ \A i \in decls :
                              /\ [j \in DOMAIN ops |-> ops[j].name.orig]
                                    = [j \in DOMAIN in_doc[i].fields |-> in_doc[i].fields[j].name]
                              /\ \A s \in DOMAIN schema.structures :
                                    schema.structures[s].name.orig # in_doc[i].name
              /\ \A i \in structs :
                    Cardinality({ s \in DOMAIN schema.structures :
                                    schema.structures[s].name.orig = in_doc[i].name }) = 1
              /\ \A i \in enumDecls :
                    Cardinality({ e \in DOMAIN schema.enums : schema.enums[e].name.orig = in_doc[i].name }) = 1
              /\ Len(schema.structures) = Cardinality(structs)
              /\ Len(schema.enums) = Cardinality(enumDecls)

\* DocKinds compiled: Root gives the queries, Changes the mutations,
\* Subscription the subscriptions, and Query is a structure like Player and
\* PlayerInput
C25_Witness ==
    /\ pc = "done"
    /\ in_doc = DocKinds
    /\ Unwrap(result).ok
    /\ Len(Unwrap(result).schema.queries) = 2
    /\ Len(Unwrap(result).schema.mutations) = 1
    /\ Len(Unwrap(result).schema.subscriptions) = 1
    /\ { Unwrap(result).schema.structures[s].name.orig : s \in DOMAIN Unwrap(result).schema.structures }
          = { N_Query, N_Player, N_PlayerInput }
    /\ Len(Unwrap(result).schema.enums) = 1

(***************************************************************************)
(* common.rs: CaseType::case on every string, the empty one included       *)
(***************************************************************************)
CaseInit ==
    /\ ident \in Identifiers \cup {<<>>}
    /\ nname = None
    /\ nres = None
    /\ TypeIdle
    /\ NewIdle
    /\ WireIdle
    /\ MacroIdle

\* CaseType::case(ident): the case, or the panic of the empty string
ClassifyCase ==
    /\ nres = None
    /\ nres' = Some(IF ident = <<>>
                    THEN [op |-> "case", panic |-> "Empty string has no case"]
                    ELSE [op |-> "case", case |-> CaseType_case(ident)])
    /\ UNCHANGED <<macroVars, ident, nname, typeVars, newVars, wireVars, reqVars>>

SpecCase == CaseInit /\ [][ClassifyCase]_vars

\* C26: CaseType::case panics on the empty string and returns, for a
\* string that starts with an uppercase character, Upper when only
\* uppercase characters and '_' follow and Pascal when a lowercase
\* character follows somewhere, and for a string that starts with a
\* lowercase character, Snake when only lowercase characters and '_' follow
\* and Camel when an uppercase character follows somewhere; so a word of
\* lowercase letters is Snake and a capitalized word is Pascal.
C26_CaseClassification ==
    IsSome(nres) =>
        LET r == Unwrap(nres)
            later == { ident[i] : i \in 2..Len(ident) }
        IN  /\ ident = <<>> <=> "panic" \in DOMAIN r
            /\ ident # <<>> =>
                  /\ (IsUppercase(ident[1]) /\ \A c \in later : IsUppercase(c) \/ c = "_") => r.case = "Upper"
                  /\ (IsUppercase(ident[1]) /\ \E c \in later : IsLowercase(c)) => r.case = "Pascal"
                  /\ (IsLowercase(ident[1]) /\ \A c \in later : IsLowercase(c) \/ c = "_") => r.case = "Snake"
                  /\ (IsLowercase(ident[1]) /\ \E c \in later : IsUppercase(c)) => r.case = "Camel"
                  /\ (\A i \in DOMAIN ident : IsLowercase(ident[i])) => r.case = "Snake"
                  /\ (IsUppercase(ident[1]) /\ later # {} /\ \A c \in later : IsLowercase(c)) => r.case = "Pascal"

\* createPlayer, with its uppercase character in the middle, is Camel
C26_Witness ==
    /\ ident = N_createPlayer
    /\ nres = Some([op |-> "case", case |-> "Camel"])

\* The empty string panics
C26_WitnessPanic ==
    /\ ident = <<>>
    /\ IsSome(nres)
    /\ "panic" \in DOMAIN Unwrap(nres)

(***************************************************************************)
(* lib.rs: arg_from_json                                                   *)
(***************************************************************************)
N_string == << "s", "t", "r", "i", "n", "g" >>

N_number == << "n", "u", "m", "b", "e", "r" >>

N_missing == << "m", "i", "s", "s", "i", "n", "g" >>

\* The types T arg_from_json::<T> is called with: String, i32, Vec<String>
\* and the Option of the first two
ArgTypes ==
    { FT_Scalar("String"), FT_Scalar("Int"), FT_List(FT_Scalar("String")),
      FT_Optionnal(FT_Scalar("String")), FT_Optionnal(FT_Scalar("Int")) }

\* The values of a member of args
ArgValues == { JString(<<"x">>), JNumber(7), JNull, JArray(<<JString(<<"x">>)>>) }

\* The args of a request: null, or an object with some of the members
\* string and number
ArgObjects ==
    {JNull} \cup
    UNION { { JObject([key \in keys |-> IF key = N_string THEN a ELSE b]) : a, b \in ArgValues } :
            keys \in SUBSET {N_string, N_number} }

\* The generated types are not needed to decode these
NoTypes == [enums |-> <<>>, structs |-> <<>>]

ArgsInit ==
    /\ call \in { Some([ty |-> ty, args |-> args, arg_name |-> arg_name]) :
                    ty \in ArgTypes, args \in ArgObjects, arg_name \in {N_string, N_number, N_missing} }
    /\ returned = None
    /\ parsed = <<>>
    /\ options = None
    /\ outputs = None
    /\ fct = None
    /\ accepted = None
    /\ TypeIdle
    /\ NewIdle
    /\ WireIdle
    /\ NameIdle

\* arg_from_json::<T>(&mut args, arg_name)
ArgFromJson ==
    /\ IsSome(call)
    /\ returned = None
    /\ LET c == Unwrap(call)
       IN  returned' = Some([result |-> arg_from_json(NoTypes, c.ty, c.args, c.arg_name),
                             args |-> arg_from_json_take(c.args, c.arg_name)])
    /\ UNCHANGED <<call, parsed, options, outputs, fct, accepted, typeVars, newVars, wireVars, reqVars, nameVars>>

SpecArgs == ArgsInit /\ [][ArgFromJson]_vars

\* The named argument is in args
ArgPresent == Unwrap(call).args.j = "Object" /\ Unwrap(call).arg_name \in DOMAIN Unwrap(call).args.members

\* arg_from_json returned Err with error type InvalidArgs and a message
\* that contains the name of the argument
ReturnedInvalidArgs ==
    LET r == Unwrap(returned).result
    IN  /\ ~r.ok
        /\ StringOf(r.error.error_type) = "InvalidArgs"
        /\ Contains(r.error.error_message, Unwrap(call).arg_name)

N_getPlayer == << "g", "e", "t", "P", "l", "a", "y", "e", "r" >>

N_ListTeams == << "L", "i", "s", "t", "T", "e", "a", "m", "s" >>

N_delete_player == << "d", "e", "l", "e", "t", "e", "_", "p", "l", "a", "y", "e", "r" >>

N_PING_ALL == << "P", "I", "N", "G", "_", "A", "L", "L" >>

N_listTeams == << "l", "i", "s", "t", "T", "e", "a", "m", "s" >>

N_pingAll == << "p", "i", "n", "g", "A", "l", "l" >>

\* A schema whose operations are named in the four casings
DocCasings ==
    << GObject(N_Query,
               << GField(N_getPlayer, <<>>, T_Named(S_String)),
                  GField(N_ListTeams, <<>>, T_Named(S_String)),
                  GField(N_players, <<>>, T_Named(S_String)) >>),
       GObject(N_Mutation,
               << GField(N_delete_player, <<>>, T_Named(S_String)),
                  GField(N_PING_ALL, <<>>, T_Named(S_String)) >>) >>

\* The field names of the requests: the names of the schemas, their
\* camelCase spellings and a name no schema has
FieldNamePool ==
    { N_getPlayer, N_ListTeams, N_players, N_delete_player, N_PING_ALL,
      N_listTeams, N_deletePlayer, N_pingAll,
      N_player, N_createPlayer, N_onCreate, N_onDelete, N_nope }

ParentTypeNamePool == { N_Query, N_Mutation, N_Subscription, N_Team }

OperationInit == NewStart({DocDispatch, DocCasings}, DispatchDirectivePool)

\* serde_json::from_value::<Operation>(info): parentTypeName and fieldName
\* of the request are decoded into the Operation enum
DeserializeOperation ==
    /\ Running
    /\ call = None
    /\ LET oc == GraphQLSchema_appsync_operations_to_tokens(Unwrap(result).schema)
       IN  /\ OperationsCompile(oc)
           /\ \E parentTypeName \in ParentTypeNamePool, fieldName \in FieldNamePool :
                 /\ call' = Some([parentTypeName |-> parentTypeName, fieldName |-> fieldName])
                 /\ returned' = Some([result |-> Operation_deserialize(oc, StringOf(parentTypeName), fieldName)])
    /\ UNCHANGED <<parsed, options, outputs, fct, accepted, typeVars, newVars, wireVars, reqVars, nameVars>>

OperationNext ==
    \/ FindSchemaDefinition
    \/ ProcessRootObject
    \/ ProcessObject
    \/ ProcessInputObject
    \/ ProcessEnum
    \/ SkipDefinition
    \/ FinishNew
    \/ AppsyncTypesToTokens
    \/ DeserializeOperation

SpecOperation == OperationInit /\ [][OperationNext]_vars

\* The operations the schema declares for the root called parentTypeName
DeclaredOperations(parentTypeName) ==
    IF parentTypeName = N_Query THEN Unwrap(result).schema.queries
    ELSE IF parentTypeName = N_Mutation THEN Unwrap(result).schema.mutations
    ELSE IF parentTypeName = N_Subscription THEN Unwrap(result).schema.subscriptions
    ELSE <<>>

\* C28: a request whose parentTypeName is a root kind and whose fieldName is
\* the schema name of an operation of that root decodes to the variant of
\* that operation, in whatever casing the schema writes the name.
C28_OrigNameDeserializes ==
    IsSome(returned) =>
        LET ops == DeclaredOperations(Unwrap(call).parentTypeName)
        IN  \A k \in DOMAIN ops :
               ops[k].name.orig = Unwrap(call).fieldName =>
                  Unwrap(returned).result
                     = Some([kind |-> StringOf(Unwrap(call).parentTypeName), variant |-> Operation_variant(ops[k])])

\* What holds: the operations with a camelCase or one-word lowercase schema
\* name are decoded from that name, the others from the camelCase spelling
\* of their name only.
C28_CamelSpellingDeserializes ==
    IsSome(returned) =>
        LET ops == DeclaredOperations(Unwrap(call).parentTypeName)
        IN  \A k \in DOMAIN ops :
               SerdeCamelCase(Operation_variant(ops[k])) = Unwrap(call).fieldName =>
                  Unwrap(returned).result
                     = Some([kind |-> StringOf(Unwrap(call).parentTypeName), variant |-> Operation_variant(ops[k])])

\* Mutation.delete_player is asked for by its schema name and is not decoded
C28_Witness ==
    /\ in_doc = DocCasings
    /\ call = Some([parentTypeName |-> N_Mutation, fieldName |-> N_delete_player])
    /\ returned = Some([result |-> None])

(***************************************************************************)
(* What the two kinds of override resolve against                          *)
(***************************************************************************)
\* The names of the operations and of their arguments after GraphQLSchema::new
OperationNames ==
    LET ops == UnwrapOrDefault(queries) \o UnwrapOrDefault(mutations) \o UnwrapOrDefault(subscriptions)
    IN  { ops[i].name : i \in DOMAIN ops }
        \cup UNION { { ops[i].args[j].name : j \in DOMAIN ops[i].args } : i \in DOMAIN ops }

NameOverrideOfRoot(d) ==
    /\ d.type_name \in { RootNamesOf(in_doc).query, RootNamesOf(in_doc).mutation, RootNamesOf(in_doc).subscription }
    /\ Declared(in_doc, {"Object"}, d.type_name) # {}

TypeOverrideOfEnum(d) ==
    /\ Declared(in_doc, {"Enum"}, d.type_name) # {}
    /\ Declared(in_doc, {"Object", "InputObject"}, d.type_name) = {}

Reported(d, text) ==
    /\ ~Unwrap(result).ok
    /\ \E i \in MessagesFor(ReturnedError, d) :
          /\ ReturnedError[i].text = text
          /\ ReturnedError[i].args = <<d.type_name>>

\* C29: after a whole document with at most one schema block, a name
\* override whose type name is an operation root is applied nowhere (no
\* operation and no argument is renamed) and is reported as 'No type, enum
\* or input named', and a type override whose type name is an enum is
\* applied nowhere and is reported as 'No type or input named'.
C29_RootRenameAndEnumTypeUnresolved ==
    (pc = "done" /\ SchemaBlockCount(in_doc) <= 1) =>
        /\ \A n \in OperationNames : n.name_override = None
        /\ \A d \in NameDirectivesIn(in_nos) :
              NameOverrideOfRoot(d) =>
                 /\ NameAppliedAt(d) = {}
                 /\ Reported(d, "No type, enum or input named '{}'")
        /\ \A d \in TypeDirectivesIn(in_tos) :
              TypeOverrideOfEnum(d) =>
                 /\ TypeAppliedAt(d) = {}
                 /\ Reported(d, "No type or input named '{}'")

\* Query.players: renamed and Team.RUST: String in one batch: both reported
C29_Witness ==
    /\ pc = "done"
    /\ in_doc = DocMain
    /\ NameDirectivesIn(in_nos) = { NameOverride(N_Query, Some(N_players), N_renamed) }
    /\ TypeDirectivesIn(in_tos) = { TypeOverride(N_Team, N_RUST, None, "String") }
    /\ Len(ReturnedError) = 2
    /\ Reported(NameOverride(N_Query, Some(N_players), N_renamed), "No type, enum or input named '{}'")
    /\ Reported(TypeOverride(N_Team, N_RUST, None, "String"), "No type or input named '{}'")
    /\ \E i \in DOMAIN UnwrapOrDefault(queries) : UnwrapOrDefault(queries)[i].name.orig = N_players

(***************************************************************************)
(* Type overrides of a subscription                                        *)
(***************************************************************************)
\* The type overrides given for the subscription op_name: the direct ones
\* (Subscription.field: T) or those of its arguments
SubscriptionOverrides(op_name, direct) ==
    { d \in TypeDirectivesIn(in_tos) :
        /\ d.type_name = RootNameOf("Subscription")
        /\ d.field_name = op_name
        /\ (d.arg_name = None) = direct }

\* C30: a direct type override of a declared subscription gets no error,
\* and the check_signature emitted for every subscription, with or without
\* the event, returns the optional filter group and takes the arguments of
\* the schema with their own overrides applied: the direct override changes
\* nothing, an argument override changes the type of its argument.
C30_SubscriptionOverrideKeepsSignature ==
    IsSome(result) =>
        /\ \A d \in TypeDirectivesIn(in_tos) :
              (/\ d.type_name = RootNameOf("Subscription")
               /\ d.arg_name = None
               /\ \E i \in Declared(in_doc, {"Object"}, d.type_name) :
                     \E j \in DOMAIN in_doc[i].fields : in_doc[i].fields[j].name = d.field_name)
              => MessagesFor(ReturnedError, d) = {}
        /\ Unwrap(result).ok =>
              LET schema == Unwrap(result).schema
                  oc == GraphQLSchema_appsync_operations_to_tokens(schema)
              IN  \A i \in DOMAIN schema.subscriptions, with_event \in BOOLEAN :
                     LET op_name == schema.subscriptions[i].name.orig
                         module == ModuleOf(oc, AppsyncOperation_impl_operation_to_tokens("Subscription", op_name))
                         declared == DeclaredOperation("Subscription", op_name).arguments
                         signature == module.check_signature[with_event]
                     IN  /\ signature.return_type = RT_Result(RT_Option(RT_FilterGroup), RT_AppsyncError)
                         /\ Len(signature.params) = Len(declared) + (IF with_event THEN 1 ELSE 0)
                         /\ \A a \in DOMAIN declared :
                               LET own == { d \in SubscriptionOverrides(op_name, FALSE) :
                                               d.arg_name = Some(declared[a].name) }
                               IN  /\ own = {} =>
                                        signature.params[a] = FieldType_to_tokens(FieldType_from(declared[a].value_type))
                                   /\ \A d \in own :
                                        signature.params[a] = FieldType_to_tokens(
                                            FieldType_override_type(FieldType_from(declared[a].value_type), d))

\* Subscription.onCreate: String and Subscription.onCreate.name: ID in one
\* batch: no error, a handler taking Option<ID> and returning the filter
\* group is accepted
C30_Witness ==
    /\ IsSome(fct)
    /\ SubscriptionOverrides(N_onCreate, TRUE) = { TypeOverride(N_Subscription, N_onCreate, None, "String") }
    /\ SubscriptionOverrides(N_onCreate, FALSE) = { TypeOverride(N_Subscription, N_onCreate, Some(N_name), "ID") }
    /\ Unwrap(result).ok
    /\ Unwrap(result).schema.subscriptions[1].return_type # FieldType_from(T_Named(N_Player))
    /\ Unwrap(fct) = [op_kind |-> "Subscription", op_name |-> N_onCreate, with_appsync_event |-> FALSE,
                      args |-> <<RT_Option(RT_Path("ID"))>>,
                      return_type |-> RT_Result(RT_Option(RT_FilterGroup), RT_AppsyncError)]
    /\ accepted = Some(TRUE)

====
